---- MODULE Spec2Model ----
(***************************************************************************)
(* The streaming-protocol assembler of anthropic-sdk (StreamProcessor in   *)
(* streaming.rs) and the part of the conversation driver (Agent in         *)
(* aj-agent) that consumes its semantic events.                            *)
(*                                                                         *)
(* Strings are sequences of one-character strings, Option<T> is a sequence *)
(* of length 0 (None) or 1 (Some), Vec<T> is a sequence.                   *)
(***************************************************************************)
EXTENDS Integers, Sequences, FiniteSets, TLC

\* ------------------------------------------------------------------ bounds

\* A message under construction receives at most MaxBlocks content blocks.
MaxBlocks == 2

\* No accumulated string (text, thinking, signature, JSON buffer) grows
\* beyond MaxLen characters.
MaxLen == 10

\* An arbitrary source delivers at most MaxEvents wire events.
MaxEvents == 5

\* The errors the driver displays for one response, at most.
MaxDisplayed == 1

\* The largest value of a token counter: u64::MAX, scaled down.
MaxU64 == 15

\* The byte stream of a response delivers at most MaxSource items.
MaxSource == 4

\* Two concurrent requests receive at most MaxInterleaved wire events.
MaxInterleaved == 4

\* A source of tool-use blocks delivers at most MaxToolEvents wire events.
MaxToolEvents == 6

\* The clock of the session shows the times 0 .. MaxClock.
MaxClock == 1

\* A file holds at most MaxContent characters.
MaxContent == 2

\* A call of todo_write has at most MaxTodos items.
MaxTodos == 3

\* The conversation of a session is continued while it has fewer than
\* MaxConversation messages.
MaxConversation == 4

\* ------------------------------------------------------------- Option<T>

None == <<>>

Some(x) == <<x>>

IsSome(o) == Len(o) = 1

IsNone(o) == Len(o) = 0

Unwrap(o) == o[1]

\* ------------------------------------------------------ serde_json::Value

\* The characters JSON fragments are made of in this model.  Within this
\* alphabet a JSON text is a number (digits), a string, or an object with at
\* most one member (there is no comma).
JsonAlphabet == {"{", "}", "\"", "a", ":", "1", " "}

ParseFail == [ok |-> FALSE, value |-> <<>>, next |-> 0]

ParseOk(v, n) == [ok |-> TRUE, value |-> v, next |-> n]

RECURSIVE SkipWs(_, _)
SkipWs(s, i) ==
    IF i <= Len(s) /\ s[i] = " " THEN SkipWs(s, i + 1) ELSE i

RECURSIVE ParseDigits(_, _, _)
ParseDigits(s, i, acc) ==
    IF i <= Len(s) /\ s[i] = "1"
    THEN ParseDigits(s, i + 1, acc * 10 + 1)
    ELSE ParseOk([type |-> "number", n |-> acc], i)

\* s[i] is the first character after the opening quote.
RECURSIVE ParseStringBody(_, _, _)
ParseStringBody(s, i, acc) ==
    IF i > Len(s) THEN ParseFail
    ELSE IF s[i] = "\"" THEN ParseOk([type |-> "string", s |-> acc], i + 1)
    ELSE IF s[i] \in {"{", "}", "a", ":", "1", " "}
         THEN ParseStringBody(s, i + 1, Append(acc, s[i]))
    ELSE ParseFail

RECURSIVE ParseValue(_, _)
ParseMember(s, i) ==
    \* s[i] is the opening quote of the member's key.
    LET k == ParseStringBody(s, i + 1, <<>>) IN
    IF ~k.ok THEN ParseFail
    ELSE LET c == SkipWs(s, k.next) IN
         IF c > Len(s) \/ s[c] # ":" THEN ParseFail
         ELSE LET v == ParseValue(s, c + 1) IN
              IF ~v.ok THEN ParseFail
              ELSE LET e == SkipWs(s, v.next) IN
                   IF e <= Len(s) /\ s[e] = "}"
                   THEN ParseOk([type |-> "object",
                                 members |-> << <<k.value.s, v.value>> >>],
                                e + 1)
                   ELSE ParseFail

ParseValue(s, i) ==
    LET j == SkipWs(s, i) IN
    IF j > Len(s) THEN ParseFail
    ELSE IF s[j] = "1" THEN ParseDigits(s, j, 0)
    ELSE IF s[j] = "\"" THEN ParseStringBody(s, j + 1, <<>>)
    ELSE IF s[j] = "{" THEN
         LET m == SkipWs(s, j + 1) IN
         IF m > Len(s) THEN ParseFail
         ELSE IF s[m] = "}"
              THEN ParseOk([type |-> "object", members |-> <<>>], m + 1)
         ELSE IF s[m] = "\"" THEN ParseMember(s, m)
         ELSE ParseFail
    ELSE ParseFail

\* serde_json::from_str::<Value>: one JSON value, then only whitespace.
\* Result<Value, Error> as [ok, value].
FromStr(s) ==
    LET r == ParseValue(s, 1) IN
    IF r.ok /\ SkipWs(s, r.next) > Len(s)
    THEN [ok |-> TRUE, value |-> r.value]
    ELSE [ok |-> FALSE, value |-> <<>>]

EmptyObject == [type |-> "object", members |-> <<>>]

\* ------------------------------------------------------------ strings

RECURSIVE Concat(_)
\* The concatenation of a sequence of strings, in order.
Concat(ss) == IF ss = <<>> THEN <<>> ELSE Head(ss) \o Concat(Tail(ss))

\* ------------------------------------------------- messages.rs data types

\* ContentBlock variants, tagged by their serde name.
TextBlock(text) == [type |-> "text", text |-> text, citations |-> <<>>]

ThinkingBlock(signature, thinking) ==
    [type |-> "thinking", signature |-> signature, thinking |-> thinking]

ToolUseBlock(id, input, name) ==
    [type |-> "tool_use", id |-> id, input |-> input, name |-> name]

ServerToolUseBlock(id, input, name) ==
    [type |-> "server_tool_use", id |-> id, input |-> input, name |-> name]

MCPToolUseBlock(id, input, name, server_name) ==
    [type |-> "mcp_tool_use", id |-> id, input |-> input, name |-> name,
     server_name |-> server_name]

RedactedThinkingBlock(data) == [type |-> "redacted_thinking", data |-> data]

ToolUseFamily == {"tool_use", "server_tool_use", "mcp_tool_use"}

\* Usage with every optional field absent.
Usage(input_tokens, output_tokens) ==
    [cache_creation |-> None, cache_creation_input_tokens |-> None,
     cache_read_input_tokens |-> None, input_tokens |-> input_tokens,
     output_tokens |-> output_tokens, server_tool_use |-> None,
     service_tier |-> None]

\* UsageDelta with every field absent.
EmptyUsageDelta ==
    [cache_creation |-> None, cache_creation_input_tokens |-> None,
     cache_read_input_tokens |-> None, input_tokens |-> None,
     output_tokens |-> None, server_tool_use |-> None,
     service_tier |-> None]

\* a += b on u64 without overflow checks: the sum wraps.
WrappingAdd(a, b) == (a + b) % (MaxU64 + 1)

\* Whether a += b on u64 overflows.
AddOverflows(a, b) == a + b > MaxU64

\* Whether one of the two additions of Usage::update overflows.
UsageOverflows(self, delta) ==
    \/ /\ IsSome(delta.input_tokens)
       /\ AddOverflows(self.input_tokens, Unwrap(delta.input_tokens))
    \/ /\ IsSome(delta.output_tokens)
       /\ AddOverflows(self.output_tokens, Unwrap(delta.output_tokens))

\* Usage::update, were the token counts of the delta to replace the
\* accumulated ones.
UsageUpdateReplacesTokens(self, delta) ==
    [cache_creation |->
        IF IsSome(delta.cache_creation) THEN delta.cache_creation
        ELSE self.cache_creation,
     cache_creation_input_tokens |->
        IF IsSome(delta.cache_creation_input_tokens)
        THEN delta.cache_creation_input_tokens
        ELSE self.cache_creation_input_tokens,
     cache_read_input_tokens |->
        IF IsSome(delta.cache_read_input_tokens)
        THEN delta.cache_read_input_tokens
        ELSE self.cache_read_input_tokens,
     input_tokens |->
        IF IsSome(delta.input_tokens) THEN Unwrap(delta.input_tokens)
        ELSE self.input_tokens,
     output_tokens |->
        IF IsSome(delta.output_tokens) THEN Unwrap(delta.output_tokens)
        ELSE self.output_tokens,
     server_tool_use |->
        IF IsSome(delta.server_tool_use) THEN delta.server_tool_use
        ELSE self.server_tool_use,
     service_tier |->
        IF IsSome(delta.service_tier) THEN delta.service_tier
        ELSE self.service_tier]

\* Usage::update: token counts are added, the other fields are replaced,
\* an absent field leaves the accumulated value.
UsageUpdate(self, delta) ==
    [cache_creation |->
        IF IsSome(delta.cache_creation) THEN delta.cache_creation
        ELSE self.cache_creation,
     cache_creation_input_tokens |->
        IF IsSome(delta.cache_creation_input_tokens)
        THEN delta.cache_creation_input_tokens
        ELSE self.cache_creation_input_tokens,
     cache_read_input_tokens |->
        IF IsSome(delta.cache_read_input_tokens)
        THEN delta.cache_read_input_tokens
        ELSE self.cache_read_input_tokens,
     input_tokens |->
        IF IsSome(delta.input_tokens)
        THEN WrappingAdd(self.input_tokens, Unwrap(delta.input_tokens))
        ELSE self.input_tokens,
     output_tokens |->
        IF IsSome(delta.output_tokens)
        THEN WrappingAdd(self.output_tokens, Unwrap(delta.output_tokens))
        ELSE self.output_tokens,
     server_tool_use |->
        IF IsSome(delta.server_tool_use) THEN delta.server_tool_use
        ELSE self.server_tool_use,
     service_tier |->
        IF IsSome(delta.service_tier) THEN delta.service_tier
        ELSE self.service_tier]

\* Message; the fields type, role, model and container are constant during
\* assembly and left out.
Message(id, content, stop_reason, stop_sequence, usage) ==
    [id |-> id, content |-> content, stop_reason |-> stop_reason,
     stop_sequence |-> stop_sequence, usage |-> usage]

\* ---------------------------------------------- streaming.rs data types

\* ServerSentEvent variants.
SseMessageStart(message) == [type |-> "message_start", message |-> message]

SseMessageDelta(delta, usage) ==
    [type |-> "message_delta", delta |-> delta, usage |-> usage]

SseMessageStop == [type |-> "message_stop"]

SseContentBlockStart(index, content_block) ==
    [type |-> "content_block_start", index |-> index,
     content_block |-> content_block]

SseContentBlockDelta(index, delta) ==
    [type |-> "content_block_delta", index |-> index, delta |-> delta]

SseContentBlockStop(index) == [type |-> "content_block_stop", index |-> index]

SsePing == [type |-> "ping"]

SseError(error) == [type |-> "error", error |-> error]

\* ContentBlockDelta variants.
TextDelta(text) == [type |-> "text_delta", text |-> text]

ThinkingDelta(thinking) == [type |-> "thinking_delta", thinking |-> thinking]

SignatureDelta(signature) ==
    [type |-> "signature_delta", signature |-> signature]

InputJsonDelta(partial_json) ==
    [type |-> "input_json_delta", partial_json |-> partial_json]

\* StreamingEvent variants.
EvMessageStart(message) == [type |-> "MessageStart", message |-> message]

EvUsageUpdate(usage) == [type |-> "UsageUpdate", usage |-> usage]

EvFinalizedMessage(message) ==
    [type |-> "FinalizedMessage", message |-> message]

EvError(error) == [type |-> "Error", error |-> error]

EvTextStart(text, citations) ==
    [type |-> "TextStart", text |-> text, citations |-> citations]

EvTextUpdate(diff, snapshot) ==
    [type |-> "TextUpdate", diff |-> diff, snapshot |-> snapshot]

EvTextStop(text) == [type |-> "TextStop", text |-> text]

EvThinkingStart(thinking) == [type |-> "ThinkingStart", thinking |-> thinking]

EvThinkingUpdate(diff, snapshot) ==
    [type |-> "ThinkingUpdate", diff |-> diff, snapshot |-> snapshot]

EvThinkingStop == [type |-> "ThinkingStop"]

EvParseError(error, raw_data) ==
    [type |-> "ParseError", error |-> error, raw_data |-> raw_data]

EvProtocolError(error) == [type |-> "ProtocolError", error |-> error]

\* StreamProcessor: the three fields of the assembler.
Processor(current_message, current_content_block, current_json) ==
    [current_message |-> current_message,
     current_content_block |-> current_content_block,
     current_json |-> current_json]

\* StreamProcessor::new
NewProcessor == Processor(None, None, None)

\* What one call of process_event leaves: the processor and the returned
\* Option<StreamingEvent>.
Ret(self, out) == [self |-> self, out |-> out]

\* Whether the returned Option<StreamingEvent> is an event of this variant.
IsEvent(out, type) == IsSome(out) /\ Unwrap(out).type = type

IsProtocolError(out) == IsEvent(out, "ProtocolError")

\* --------------------------------------- StreamProcessor::process_event

\* self.current_message with `message` in place of the message it holds.
WithMessage(self, message) ==
    [self EXCEPT !.current_message = Some(message)]

\* self.current_content_block with `block` in place of the block it holds.
WithBlock(self, block) ==
    [self EXCEPT !.current_content_block = Some(block)]

\* PushContent, were the block inserted at the front of the content list.
PushContentFront(self, block) ==
    LET msg == Unwrap(self.current_message) IN
    WithMessage(self, [msg EXCEPT !.content = <<block>> \o msg.content])

\* current_message.content.push(block)
PushContent(self, block) ==
    LET msg == Unwrap(self.current_message) IN
    WithMessage(self, [msg EXCEPT !.content = Append(msg.content, block)])

\* ServerSentEvent::MessageStart { message }
OnMessageStart(self, message) ==
    LET prev == self.current_message
        replaced == [self EXCEPT !.current_message = Some(message)]
    IN  IF IsSome(prev)
        THEN Ret(replaced, Some(EvProtocolError(
                 "got new message start while we're already assembling a message")))
        ELSE Ret(replaced, Some(EvMessageStart(message)))

\* ServerSentEvent::MessageDelta { delta, usage }
OnMessageDelta(self, delta, usage) ==
    IF IsNone(self.current_message)
    THEN Ret(self, Some(EvProtocolError(
             "got message delta but don't have a current message")))
    ELSE LET msg == Unwrap(self.current_message) IN
         Ret(WithMessage(self,
                 [msg EXCEPT !.stop_reason = delta.stop_reason,
                             !.stop_sequence = delta.stop_sequence,
                             !.usage = UsageUpdate(msg.usage, usage)]),
             Some(EvUsageUpdate(usage)))

\* OnMessageStop, were the message cloned and not moved out.
OnMessageStopKeepsMessage(self) ==
    IF IsNone(self.current_message)
    THEN Ret(self, Some(EvProtocolError(
             "got message stop but don't have a current message")))
    ELSE Ret(self, Some(EvFinalizedMessage(Unwrap(self.current_message))))

\* ServerSentEvent::MessageStop
OnMessageStop(self) ==
    IF IsNone(self.current_message)
    THEN Ret(self, Some(EvProtocolError(
             "got message stop but don't have a current message")))
    ELSE Ret([self EXCEPT !.current_message = None],
             Some(EvFinalizedMessage(Unwrap(self.current_message))))

\* OnPing, were the open content block dropped.
OnPingDropsBlock(self) ==
    Ret([self EXCEPT !.current_content_block = None], None)

\* ServerSentEvent::Ping
OnPing(self) == Ret(self, None)

\* OnError, were the processor reset by the error.
OnErrorResets(self, error) == Ret(NewProcessor, Some(EvError(error)))

\* ServerSentEvent::Error { error }
OnError(self, error) == Ret(self, Some(EvError(error)))

\* OnContentBlockStart, were the index checked against the position the block
\* will have in the message.
OnContentBlockStartChecksIndex(self, index, content_block) ==
    LET prev == self.current_content_block
        replaced == [self EXCEPT !.current_content_block = Some(content_block)]
    IN  IF IsSome(prev)
        THEN Ret(replaced, Some(EvProtocolError(
                 "got new content block start while we're already assembling a content block")))
        ELSE IF /\ IsSome(self.current_message)
                /\ index # Len(Unwrap(self.current_message).content)
        THEN Ret(self, Some(EvProtocolError("unexpected content block index")))
        ELSE IF content_block.type = "text"
        THEN Ret(replaced,
                 Some(EvTextStart(content_block.text, content_block.citations)))
        ELSE IF content_block.type = "thinking"
        THEN Ret(replaced, Some(EvThinkingStart(content_block.thinking)))
        ELSE Ret([replaced EXCEPT !.current_json = Some(<<>>)], None)

\* ServerSentEvent::ContentBlockStart { index: _, content_block }
OnContentBlockStart(self, index, content_block) ==
    LET prev == self.current_content_block
        replaced == [self EXCEPT !.current_content_block = Some(content_block)]
    IN  IF IsSome(prev)
        THEN Ret(replaced, Some(EvProtocolError(
                 "got new content block start while we're already assembling a content block")))
        ELSE IF content_block.type = "text"
        THEN Ret(replaced,
                 Some(EvTextStart(content_block.text, content_block.citations)))
        ELSE IF content_block.type = "thinking"
        THEN Ret(replaced, Some(EvThinkingStart(content_block.thinking)))
        ELSE Ret([replaced EXCEPT !.current_json = Some(<<>>)], None)

\* OnTextDelta, were the snapshot of the TextUpdate the fragment alone.
OnTextDeltaSnapshotIsDiff(self, text) ==
    LET content_block == Unwrap(self.current_content_block) IN
    IF content_block.type # "text"
    THEN Ret(self, Some(EvProtocolError(
             "got text delta for non-text content block")))
    ELSE LET current_text == content_block.text \o text IN
         Ret(WithBlock(self, [content_block EXCEPT !.text = current_text]),
             Some(EvTextUpdate(text, text)))

\* ContentBlockDelta::TextDelta { text }
OnTextDelta(self, text) ==
    LET content_block == Unwrap(self.current_content_block) IN
    IF content_block.type # "text"
    THEN Ret(self, Some(EvProtocolError(
             "got text delta for non-text content block")))
    ELSE LET current_text == content_block.text \o text IN
         Ret(WithBlock(self, [content_block EXCEPT !.text = current_text]),
             Some(EvTextUpdate(text, current_text)))

\* ContentBlockDelta::ThinkingDelta { thinking }
OnThinkingDelta(self, thinking) ==
    LET content_block == Unwrap(self.current_content_block) IN
    IF content_block.type # "thinking"
    THEN Ret(self, Some(EvProtocolError(
             "got thinking delta for non-thinking content block")))
    ELSE LET current_thinking == content_block.thinking \o thinking IN
         Ret(WithBlock(self,
                 [content_block EXCEPT !.thinking = current_thinking]),
             Some(EvThinkingUpdate(thinking, current_thinking)))

\* OnSignatureDelta, were the fragment to replace the signature.
OnSignatureDeltaReplaces(self, signature) ==
    LET content_block == Unwrap(self.current_content_block) IN
    IF content_block.type # "thinking"
    THEN Ret(self, Some(EvProtocolError(
             "got signature delta for non-thinking content block")))
    ELSE Ret(WithBlock(self, [content_block EXCEPT !.signature = signature]),
             None)

\* ContentBlockDelta::SignatureDelta { signature }
OnSignatureDelta(self, signature) ==
    LET content_block == Unwrap(self.current_content_block) IN
    IF content_block.type # "thinking"
    THEN Ret(self, Some(EvProtocolError(
             "got signature delta for non-thinking content block")))
    ELSE Ret(WithBlock(self,
                 [content_block EXCEPT
                     !.signature = content_block.signature \o signature]),
             None)

\* OnInputJsonDelta, were the fragment to replace the buffer.
OnInputJsonDeltaReplaces(self, partial_json) ==
    IF IsNone(self.current_json)
    THEN Ret(self, Some(EvProtocolError(
             "got input json delta but don't have a current json")))
    ELSE Ret([self EXCEPT !.current_json = Some(partial_json)], None)

\* ContentBlockDelta::InputJsonDelta { partial_json }
OnInputJsonDelta(self, partial_json) ==
    IF IsNone(self.current_json)
    THEN Ret(self, Some(EvProtocolError(
             "got input json delta but don't have a current json")))
    ELSE Ret([self EXCEPT
                 !.current_json = Some(Unwrap(self.current_json) \o partial_json)],
             None)

\* OnContentBlockDelta, were the index of the delta not compared with the
\* number of content blocks of the message.
OnContentBlockDeltaAnyIndex(self, index, delta) ==
    IF IsNone(self.current_content_block)
    THEN Ret(self, Some(EvProtocolError(
             "got content block delta but don't have a current content block")))
    ELSE IF IsNone(self.current_message)
    THEN Ret(self, Some(EvProtocolError(
             "got content block delta but don't have a current message")))
    ELSE IF delta.type = "text_delta" THEN OnTextDelta(self, delta.text)
    ELSE IF delta.type = "thinking_delta"
    THEN OnThinkingDelta(self, delta.thinking)
    ELSE IF delta.type = "signature_delta"
    THEN OnSignatureDelta(self, delta.signature)
    ELSE OnInputJsonDelta(self, delta.partial_json)

\* ServerSentEvent::ContentBlockDelta { index, delta }
OnContentBlockDelta(self, index, delta) ==
    IF IsNone(self.current_content_block)
    THEN Ret(self, Some(EvProtocolError(
             "got content block delta but don't have a current content block")))
    ELSE IF IsNone(self.current_message)
    THEN Ret(self, Some(EvProtocolError(
             "got content block delta but don't have a current message")))
    ELSE IF Len(Unwrap(self.current_message).content) # index
    THEN Ret(self, Some(EvProtocolError(
             "got content block delta for index but current message has other content blocks")))
    ELSE IF delta.type = "text_delta" THEN OnTextDelta(self, delta.text)
    ELSE IF delta.type = "thinking_delta"
    THEN OnThinkingDelta(self, delta.thinking)
    ELSE IF delta.type = "signature_delta"
    THEN OnSignatureDelta(self, delta.signature)
    ELSE OnInputJsonDelta(self, delta.partial_json)

\* FinalizeToolUse, were a block whose JSON does not parse pushed as started.
FinalizeToolUsePushesUnparsed(taken, content_block, what) ==
    IF IsNone(taken.current_json)
    THEN Ret(taken, Some(EvProtocolError(
             "got " \o what \o " but don't have a current json")))
    ELSE LET input_json == Unwrap(taken.current_json)
             after == [taken EXCEPT !.current_json = None]
             parsed == FromStr(input_json)
         IN  IF ~parsed.ok
             THEN Ret(PushContent(after, content_block),
                      Some(EvParseError(
                          "failed to parse " \o what \o " input json",
                          input_json)))
             ELSE Ret(PushContent(after,
                          [content_block EXCEPT !.input = parsed.value]),
                      None)

\* FinalizeToolUse, were the block pushed with the input it was started with.
FinalizeToolUseKeepsInput(taken, content_block, what) ==
    IF IsNone(taken.current_json)
    THEN Ret(taken, Some(EvProtocolError(
             "got " \o what \o " but don't have a current json")))
    ELSE LET input_json == Unwrap(taken.current_json)
             after == [taken EXCEPT !.current_json = None]
             parsed == FromStr(input_json)
         IN  IF ~parsed.ok
             THEN Ret(after, Some(EvParseError(
                      "failed to parse " \o what \o " input json", input_json)))
             ELSE Ret(PushContent(after, content_block), None)

\* The three tool-use arms of ContentBlockStop: take the JSON buffer, parse
\* it, push the block with the parsed input.  `taken` is the processor after
\* current_content_block.take().
FinalizeToolUse(taken, content_block, what) ==
    IF IsNone(taken.current_json)
    THEN Ret(taken, Some(EvProtocolError(
             "got " \o what \o " but don't have a current json")))
    ELSE LET input_json == Unwrap(taken.current_json)
             after == [taken EXCEPT !.current_json = None]
             parsed == FromStr(input_json)
         IN  IF ~parsed.ok
             THEN Ret(after, Some(EvParseError(
                      "failed to parse " \o what \o " input json", input_json)))
             ELSE Ret(PushContent(after,
                          [content_block EXCEPT !.input = parsed.value]),
                      None)

\* OnContentBlockStop, were a block of another kind dropped at its stop.
OnContentBlockStopDropsOther(self, index) ==
    IF IsNone(self.current_content_block)
    THEN Ret(self, Some(EvProtocolError(
             "got content block stop but don't have a current content block")))
    ELSE LET content_block == Unwrap(self.current_content_block)
             taken == [self EXCEPT !.current_content_block = None]
         IN  IF IsNone(taken.current_message)
             THEN Ret(taken, Some(EvProtocolError(
                      "got content block stop but don't have a current message")))
             ELSE IF content_block.type = "text"
             THEN Ret(PushContent(taken, content_block),
                      Some(EvTextStop(content_block.text)))
             ELSE IF content_block.type = "thinking"
             THEN Ret(PushContent(taken, content_block), Some(EvThinkingStop))
             ELSE IF content_block.type = "tool_use"
             THEN FinalizeToolUse(taken, content_block, "tool use")
             ELSE IF content_block.type = "server_tool_use"
             THEN FinalizeToolUse(taken, content_block, "server tool use")
             ELSE IF content_block.type = "mcp_tool_use"
             THEN FinalizeToolUse(taken, content_block, "mcp tool use")
             ELSE Ret(taken, None)

\* ServerSentEvent::ContentBlockStop { index: _ }
OnContentBlockStop(self, index) ==
    IF IsNone(self.current_content_block)
    THEN Ret(self, Some(EvProtocolError(
             "got content block stop but don't have a current content block")))
    ELSE LET content_block == Unwrap(self.current_content_block)
             taken == [self EXCEPT !.current_content_block = None]
         IN  IF IsNone(taken.current_message)
             THEN Ret(taken, Some(EvProtocolError(
                      "got content block stop but don't have a current message")))
             ELSE IF content_block.type = "text"
             THEN Ret(PushContent(taken, content_block),
                      Some(EvTextStop(content_block.text)))
             ELSE IF content_block.type = "thinking"
             THEN Ret(PushContent(taken, content_block), Some(EvThinkingStop))
             ELSE IF content_block.type = "tool_use"
             THEN FinalizeToolUse(taken, content_block, "tool use")
             ELSE IF content_block.type = "server_tool_use"
             THEN FinalizeToolUse(taken, content_block, "server tool use")
             ELSE IF content_block.type = "mcp_tool_use"
             THEN FinalizeToolUse(taken, content_block, "mcp tool use")
             ELSE Ret(PushContent(taken, content_block), None)

\* StreamProcessor::process_event
ProcessEvent(self, event) ==
    IF event.type = "message_start" THEN OnMessageStart(self, event.message)
    ELSE IF event.type = "message_delta"
    THEN OnMessageDelta(self, event.delta, event.usage)
    ELSE IF event.type = "message_stop" THEN OnMessageStop(self)
    ELSE IF event.type = "ping" THEN OnPing(self)
    ELSE IF event.type = "error" THEN OnError(self, event.error)
    ELSE IF event.type = "content_block_start"
    THEN OnContentBlockStart(self, event.index, event.content_block)
    ELSE IF event.type = "content_block_delta"
    THEN OnContentBlockDelta(self, event.index, event.delta)
    ELSE OnContentBlockStop(self, event.index)

\* A panic in place of a returned value.
Panic(message) == [type |-> "Panic", message |-> message]

\* What process_event can do with the event: what it returns, and, where an
\* addition of Usage::update overflows, the panic of a build with overflow
\* checks next to the wrapped sum of a build without.
Outcomes(self, event) ==
    IF /\ event.type = "message_delta"
       /\ IsSome(self.current_message)
       /\ UsageOverflows(Unwrap(self.current_message).usage, event.usage)
    THEN { ProcessEvent(self, event),
           Ret(self, Some(Panic("attempt to add with overflow"))) }
    ELSE { ProcessEvent(self, event) }

\* ---------------------------------------------------------- wire inputs

\* The positions a wire event may name.
Indices == 0 .. MaxBlocks

\* Fragments have 4 or 6 characters.
TextFragments == { <<"H", "i", ",", " ">>, <<"t", "h", "e", "r", "e", "!">> }

ThinkingFragments == { <<"H", "m", "m", ".", ".", ".">> }

SignatureFragments == { <<"s", "i", "g", "0", "0", "1">> }

\* {"aa": and 111} : together {"aa":111}, each alone no JSON text.
JsonFragments ==
    { <<"{", "\"", "a", "a", "\"", ":">>, <<"1", "1", "1", "}">> }

\* The content blocks a ContentBlockStart may carry: an initial payload of
\* each kind, the tool-use kinds with the zero-value argument.
StartBlocks ==
    { TextBlock(<<">", " ">>),
      ThinkingBlock(<<>>, <<>>),
      ToolUseBlock("toolu_1", EmptyObject, "bash"),
      ServerToolUseBlock("srvtoolu_1", EmptyObject, "web_search"),
      MCPToolUseBlock("mcptoolu_1", EmptyObject, "fetch", "remote"),
      RedactedThinkingBlock(<<"z">>) }

Deltas ==
    { TextDelta(t) : t \in TextFragments }
    \cup { ThinkingDelta(t) : t \in ThinkingFragments }
    \cup { SignatureDelta(t) : t \in SignatureFragments }
    \cup { InputJsonDelta(t) : t \in JsonFragments }

\* The message a MessageStart carries: empty content, initial usage.
StartMessages == { Message("msg_1", <<>>, None, None, Usage(1, 0)) }

MessageDeltas ==
    { [stop_reason |-> r, stop_sequence |-> None] :
        r \in {None, Some("end_turn")} }

UsageDeltas == { EmptyUsageDelta }

\* The usage deltas of a source that reports usage: deltas with token counts
\* up to u64::MAX and a service tier, deltas with one of the other fields,
\* and the delta with every field.
ReportedUsageDeltas ==
    { [EmptyUsageDelta EXCEPT !.input_tokens = i, !.output_tokens = o,
                              !.service_tier = t] :
        i \in {None, Some(3), Some(5), Some(MaxU64)},
        o \in {None, Some(1)},
        t \in {None, Some("standard"), Some("priority")} }
    \cup { [EmptyUsageDelta EXCEPT !.cache_creation =
               Some([ephemeral_1h_input_tokens |-> 0,
                     ephemeral_5m_input_tokens |-> 2])],
           [EmptyUsageDelta EXCEPT !.cache_creation_input_tokens = Some(2)],
           [EmptyUsageDelta EXCEPT !.cache_read_input_tokens = Some(4)],
           [EmptyUsageDelta EXCEPT !.server_tool_use =
               Some([web_search_requests |-> 1])],
           [cache_creation |->
               Some([ephemeral_1h_input_tokens |-> 1,
                     ephemeral_5m_input_tokens |-> 0]),
            cache_creation_input_tokens |-> Some(1),
            cache_read_input_tokens |-> Some(0),
            input_tokens |-> Some(1), output_tokens |-> Some(2),
            server_tool_use |-> Some([web_search_requests |-> 2]),
            service_tier |-> Some("batch")] }

\* The wire events of a message that carries usage and no content.
UsageEvents ==
    { SseMessageStart(Message("msg_1", <<>>, None, None, Usage(0, 0))),
      SseMessageStop, SsePing }
    \cup { SseMessageDelta(d, u) :
             d \in { [stop_reason |-> None, stop_sequence |-> None],
                     [stop_reason |-> Some("stop_sequence"),
                      stop_sequence |-> Some("END")] },
             u \in ReportedUsageDeltas }

ApiError == [type |-> "overloaded_error", message |-> "Overloaded"]

\* The wire events over a set of content blocks to start.
EventsOver(blocks) ==
    { SseMessageStart(m) : m \in StartMessages }
    \cup { SseMessageDelta(d, u) : d \in MessageDeltas, u \in UsageDeltas }
    \cup { SseMessageStop, SsePing, SseError(ApiError) }
    \cup { SseContentBlockStart(i, b) : i \in Indices, b \in blocks }
    \cup { SseContentBlockDelta(i, d) : i \in Indices, d \in Deltas }
    \cup { SseContentBlockStop(i) : i \in Indices }

WireEvents == EventsOver(StartBlocks)

\* The three tool-use arms are the same code: the well-formed runs are
\* explored with one of them.
WellFormedEvents ==
    EventsOver({ b \in StartBlocks :
                   b.type \notin {"server_tool_use", "mcp_tool_use"} })

\* The bounds of the model, on a processor.
BlockBounded(b) ==
    /\ b.type = "text" => Len(b.text) <= MaxLen
    /\ b.type = "thinking" =>
          Len(b.thinking) <= MaxLen /\ Len(b.signature) <= MaxLen

Bounded(self) ==
    /\ IsSome(self.current_message) =>
          Len(Unwrap(self.current_message).content) <= MaxBlocks
    /\ IsSome(self.current_content_block) =>
          BlockBounded(Unwrap(self.current_content_block))
    /\ IsSome(self.current_json) => Len(Unwrap(self.current_json)) <= MaxLen

\* ------------------------------------------------- the transition table

\* Whether the open block accepts a delta of this kind.
KindMatches(block, delta) ==
    \/ delta.type = "text_delta" /\ block.type = "text"
    \/ delta.type \in {"thinking_delta", "signature_delta"}
          /\ block.type = "thinking"
    \/ delta.type = "input_json_delta" /\ block.type \in ToolUseFamily

\* The precondition under which the transition table gives the event an
\* effect.  A ContentBlockStop appends to the message, so it needs one.
Precondition(self, event) ==
    IF event.type = "message_start" THEN IsNone(self.current_message)
    ELSE IF event.type \in {"message_delta", "message_stop"}
    THEN IsSome(self.current_message)
    ELSE IF event.type = "content_block_start"
    THEN IsNone(self.current_content_block)
    ELSE IF event.type = "content_block_delta"
    THEN /\ IsSome(self.current_content_block)
         /\ IsSome(self.current_message)
         /\ event.index = Len(Unwrap(self.current_message).content)
         /\ KindMatches(Unwrap(self.current_content_block), event.delta)
    ELSE IF event.type = "content_block_stop"
    THEN IsSome(self.current_content_block) /\ IsSome(self.current_message)
    ELSE TRUE

\* ---------------------------------------- the record of a well-formed run

\* What was delivered for the block opened by a ContentBlockStart: the block
\* as started, the fragments of each kind in arrival order, and the semantic
\* events its ContentBlockStart, ContentBlockDelta and ContentBlockStop
\* events produced.
Delivered(start) ==
    [start |-> start, text |-> <<>>, signature |-> <<>>, json |-> <<>>,
     outs |-> <<>>]

\* Whether the table has the closed block appended: every kind but a
\* tool-use kind whose fragments are no JSON text.
IsAppended(d) ==
    d.start.type \in ToolUseFamily => FromStr(Concat(d.json)).ok

\* The run so far: whether every event met its precondition, and then the
\* open block, the block the last event closed, and the blocks of the current message
\* that were closed and appended, in the order of their ContentBlockStart.
NoRecord == [wf |-> FALSE, open |-> None, closed |-> None, done |-> <<>>]

InitRecord == [wf |-> TRUE, open |-> None, closed |-> None, done |-> <<>>]

\* The record after `event`, processed in state `self` with outcome `ret`.
Recorded(rec, self, event, ret) ==
    LET r == [rec EXCEPT !.closed = None] IN
    IF ~(rec.wf /\ Precondition(self, event)) THEN NoRecord
    ELSE IF event.type = "message_start" THEN [r EXCEPT !.done = <<>>]
    ELSE IF event.type = "content_block_start"
    THEN [r EXCEPT !.open =
             Some([Delivered(event.content_block)
                      EXCEPT !.outs = ret.out])]
    ELSE IF event.type = "content_block_delta"
    THEN LET o == Unwrap(rec.open)
             d == event.delta
             n == IF d.type = "text_delta"
                  THEN [o EXCEPT !.text = Append(o.text, d.text)]
                  ELSE IF d.type = "thinking_delta"
                  THEN [o EXCEPT !.text = Append(o.text, d.thinking)]
                  ELSE IF d.type = "signature_delta"
                  THEN [o EXCEPT !.signature = Append(o.signature, d.signature)]
                  ELSE [o EXCEPT !.json = Append(o.json, d.partial_json)]
         IN  [r EXCEPT !.open = Some([n EXCEPT !.outs = o.outs \o ret.out])]
    ELSE IF event.type = "content_block_stop"
    THEN LET o == Unwrap(rec.open)
             c == [o EXCEPT !.outs = o.outs \o ret.out]
         IN  [r EXCEPT !.open = None,
                       !.closed = Some(c),
                       !.done = IF IsAppended(c) THEN Append(rec.done, c)
                                ELSE rec.done]
    ELSE r

\* ------------------------------------------------------------ the state

VARIABLES
    current_message,        \* StreamProcessor.current_message
    current_content_block,  \* StreamProcessor.current_content_block
    current_json,           \* StreamProcessor.current_json
    result,                 \* what the last call of process_event returned
    record,                 \* the record of the run, while it is well-formed
    received_json,          \* the JSON fragments accepted since the open block
                            \* became the open block
    n_events,               \* the wire events taken from an arbitrary source
    pc,                     \* where execute_turn is
    response,               \* execute_turn: response
    tool_calls,             \* execute_turn: tool_calls still to execute
    executed,               \* the calls of execute_tool for this response
    displayed_errors,       \* the calls of ui.display_error for this response
    wire_index,             \* the index the source gives the next content block
    raw_taken,              \* the items taken from the event source so far
    stream_pc,              \* where the stream of messages_stream is
    wire,                   \* the decoded wire event about to be processed
    yielded,                \* the semantic events forwarded downstream
    procs,                  \* the StreamProcessor of each concurrent request
    req_inputs,             \* the wire events each request has received
    req_outs,               \* the semantic events each request has emitted
    files,                  \* the file at each path: content and modified
    file_access_times,      \* SessionState: the recorded access of each path
    clock,                  \* SystemTime::now
    tool_result,            \* the tool call of the last step, if it was one
    todo_list,              \* SessionState.todo_list
    agent_pc,               \* where Agent::run is
    conversation,           \* Agent::run: conversation
    thinking_used,          \* SessionState.thinking_used
    thinking_config,        \* execute_turn: thinking_config of the model call
    tool_result_contents    \* execute_turn: tool_result_contents

\* Agent::run and the session, above one execute_turn.
agent_vars ==
    <<agent_pc, conversation, thinking_used, thinking_config,
      tool_result_contents>>

turn_vars ==
    <<pc, response, tool_calls, executed, displayed_errors, agent_vars>>

stream_vars == <<raw_taken, stream_pc, wire, yielded>>

request_vars == <<procs, req_inputs, req_outs>>

\* The state that only the specifications of single components use.
tool_vars ==
    <<received_json, files, file_access_times, clock, tool_result, todo_list>>

\* The StreamProcessor and what is recorded of its run.
processor_vars ==
    <<current_message, current_content_block, current_json, result, record,
      n_events, received_json>>

\* The state of the sources and consumers that only some specifications use.
aux_vars ==
    <<wire_index, raw_taken, stream_pc, wire, yielded, procs, req_inputs,
      req_outs>>

vars ==
    <<current_message, current_content_block, current_json, result, record,
      n_events, pc, response, tool_calls, executed, displayed_errors,
      wire_index, raw_taken, stream_pc, wire, yielded, procs, req_inputs,
      req_outs, received_json, files, file_access_times, clock, tool_result,
      todo_list, agent_pc, conversation, thinking_used, thinking_config,
      tool_result_contents>>

\* The StreamProcessor as one value.
Self == Processor(current_message, current_content_block, current_json)

Init ==
    /\ current_message = NewProcessor.current_message
    /\ current_content_block = NewProcessor.current_content_block
    /\ current_json = NewProcessor.current_json
    /\ result = None
    /\ record = InitRecord
    /\ received_json = <<>>
    /\ n_events = 0
    /\ pc = "streaming"
    /\ response = None
    /\ tool_calls = <<>>
    /\ executed = <<>>
    /\ displayed_errors = 0
    /\ wire_index = 0
    /\ raw_taken = <<>>
    /\ stream_pc = "next"
    /\ wire = None
    /\ yielded = <<>>
    /\ procs = [r \in {1, 2} |-> None]
    /\ req_inputs = [r \in {1, 2} |-> <<>>]
    /\ req_outs = [r \in {1, 2} |-> <<>>]
    /\ files = [p \in {<<"/", "f">>, <<"/", "g">>} |->
                  IF p = <<"/", "f">>
                  THEN <<[content |-> <<"a", "b">>, modified |-> 0]>>
                  ELSE <<>>]
    /\ file_access_times = [p \in {<<"/", "f">>, <<"/", "g">>} |-> <<>>]
    /\ clock = 0
    /\ tool_result = <<>>
    /\ todo_list = <<>>
    /\ agent_pc = "run"
    /\ conversation = <<>>
    /\ thinking_used = FALSE
    /\ thinking_config = None
    /\ tool_result_contents = <<>>

\* One turn of the loop of process_stream: take the next wire event, process
\* it, yield the outcome.
Step(event) ==
    \E ret \in Outcomes(Self, event) :
        /\ ~IsEvent(result, "Panic")
        /\ Bounded(ret.self)
        /\ current_message' = ret.self.current_message
        /\ current_content_block' = ret.self.current_content_block
        /\ current_json' = ret.self.current_json
        /\ result' = ret.out
        /\ record' = Recorded(record, Self, event, ret)

\* The source delivers any wire event, in any state.
Receive(event) ==
    /\ n_events < MaxEvents
    /\ n_events' = n_events + 1
    /\ Step(event)
    /\ UNCHANGED turn_vars
    /\ UNCHANGED tool_vars
    /\ UNCHANGED aux_vars

\* The source delivers a wire event that meets its precondition.
ReceiveWellFormed(event) ==
    /\ Precondition(Self, event)
    /\ UNCHANGED n_events
    /\ Step(event)
    /\ UNCHANGED turn_vars
    /\ UNCHANGED tool_vars
    /\ UNCHANGED aux_vars

Next == \E event \in WireEvents : Receive(event)

Spec == Init /\ [][Next]_vars

NextWellFormed == \E event \in WellFormedEvents : ReceiveWellFormed(event)

SpecWellFormed == Init /\ [][NextWellFormed]_vars

\* The source delivers the events of a message that carries usage.
NextUsage == \E event \in UsageEvents : Receive(event)

SpecUsage == Init /\ [][NextUsage]_vars

\* Whether a source that numbers the content blocks of a message 0, 1, 2,
\* ... in the order it starts them, and opens and closes message and blocks
\* in turn, may send the event now.
InWireOrder(self, index, event) ==
    IF event.type = "message_start" THEN IsNone(self.current_message)
    ELSE IF event.type \in {"message_delta", "message_stop"}
    THEN IsSome(self.current_message) /\ IsNone(self.current_content_block)
    ELSE IF event.type = "content_block_start"
    THEN /\ IsSome(self.current_message)
         /\ IsNone(self.current_content_block)
         /\ event.index = index
    ELSE IF event.type = "content_block_delta"
    THEN /\ IsSome(self.current_message)
         /\ IsSome(self.current_content_block)
         /\ event.index = index
         /\ KindMatches(Unwrap(self.current_content_block), event.delta)
    ELSE IF event.type = "content_block_stop"
    THEN /\ IsSome(self.current_message)
         /\ IsSome(self.current_content_block)
         /\ event.index = index
    ELSE event.type = "ping"

\* The source delivers the next event of a message in wire order.
ReceiveInWireOrder(event) ==
    /\ InWireOrder(Self, wire_index, event)
    /\ Step(event)
    /\ wire_index' = IF event.type = "message_start" THEN 0
                     ELSE IF event.type = "content_block_stop"
                     THEN wire_index + 1
                     ELSE wire_index
    /\ UNCHANGED n_events
    /\ UNCHANGED turn_vars
    /\ UNCHANGED tool_vars
    /\ UNCHANGED stream_vars
    /\ UNCHANGED request_vars

NextInWireOrder == \E event \in WellFormedEvents : ReceiveInWireOrder(event)

SpecWireOrder == Init /\ [][NextInWireOrder]_vars

\* ------------------------------------------ Client::messages_stream

\* What the event source of a response yields: a frame whose data decodes to
\* a wire event, a frame whose data does not decode, or an error.
Frame(event) == [kind |-> "frame", event |-> event]

UndecodableFrame == [kind |-> "undecodable"]

EventStreamError == [kind |-> "error"]

RawItems ==
    { Frame(e) :
        e \in { SseMessageStart(Message("msg_1", <<>>, None, None, Usage(1, 0))),
                SseContentBlockStart(0, TextBlock(<<">", " ">>)),
                SseContentBlockDelta(0, TextDelta(<<"H", "i", ",", " ">>)),
                SseContentBlockStop(0),
                SseMessageStop, SsePing, SseError(ApiError) } }
    \cup { UndecodableFrame, EventStreamError }

\* `yield high_level_event`, were the event put before those yielded so far.
ForwardFirst(downstream, high_level_event) ==
    <<high_level_event>> \o downstream

\* `yield high_level_event`: the event goes downstream, behind those before.
Forward(downstream, high_level_event) ==
    Append(downstream, high_level_event)

\* The stream is polled and the source has an item: the closure of
\* filter_map decodes a frame, panics on a frame that does not decode, and
\* logs and drops an error.
Poll(item) ==
    /\ stream_pc = "next"
    /\ Len(raw_taken) < MaxSource
    /\ raw_taken' = Append(raw_taken, item)
    /\ IF item.kind = "frame"
       THEN wire' = Some(item.event) /\ stream_pc' = "process"
       ELSE IF item.kind = "undecodable"
       THEN wire' = None /\ stream_pc' = "panicked"
       ELSE wire' = None /\ stream_pc' = "next"
    /\ UNCHANGED <<current_message, current_content_block, current_json,
                   result, record, n_events, wire_index, yielded>>
    /\ UNCHANGED turn_vars
    /\ UNCHANGED tool_vars
    /\ UNCHANGED request_vars

\* The source has ended: the while-let loop of process_stream ends.
SourceEnds ==
    /\ stream_pc = "next"
    /\ stream_pc' = "ended"
    /\ UNCHANGED <<current_message, current_content_block, current_json,
                   result, record, n_events, wire_index, raw_taken, wire,
                   yielded>>
    /\ UNCHANGED turn_vars
    /\ UNCHANGED tool_vars
    /\ UNCHANGED request_vars

\* The body of the loop: self.process_event(event), then yield or continue.
Process ==
    /\ stream_pc = "process"
    /\ Step(Unwrap(wire))
    /\ wire' = None
    /\ stream_pc' = IF result' = None THEN "next"
                    ELSE IF IsEvent(result', "Panic") THEN "panicked"
                    ELSE "yield"
    /\ UNCHANGED <<n_events, wire_index, raw_taken, yielded>>
    /\ UNCHANGED turn_vars
    /\ UNCHANGED tool_vars
    /\ UNCHANGED request_vars

\* The consumer takes the yielded event; the loop resumes.
Yield ==
    /\ stream_pc = "yield"
    /\ yielded' = Forward(yielded, Unwrap(result))
    /\ stream_pc' = "next"
    /\ UNCHANGED <<current_message, current_content_block, current_json,
                   result, record, n_events, wire_index, raw_taken, wire>>
    /\ UNCHANGED turn_vars
    /\ UNCHANGED tool_vars
    /\ UNCHANGED request_vars

NextStream ==
    \/ \E item \in RawItems : Poll(item)
    \/ SourceEnds
    \/ Process
    \/ Yield

SpecStream == Init /\ [][NextStream]_vars

\* ------------------------------------------------ concurrent requests

\* The two requests that run concurrently, a parent agent and a sub-agent.
Requests == {1, 2}

\* The wire events the requests receive.
RequestEvents ==
    { SseMessageStart(Message("msg_1", <<>>, None, None, Usage(1, 0))),
      SseContentBlockStart(0, TextBlock(<<">", " ">>)),
      SseContentBlockStart(0, ToolUseBlock("toolu_1", EmptyObject, "bash")),
      SseContentBlockDelta(0, TextDelta(<<"H", "i", ",", " ">>)),
      SseContentBlockDelta(0, InputJsonDelta(<<"1", "1", "1", "}">>)),
      SseContentBlockStop(0),
      SseMessageStop }

\* process_event on the processor of request r, were current_json one
\* buffer shared by the processors.
ProcessForSharedJson(all, r, event) ==
    LET ret == ProcessEvent(Unwrap(all[r]), event) IN
    [q \in Requests |->
        IF q = r THEN Some(ret.self)
        ELSE IF IsSome(all[q])
        THEN Some([Unwrap(all[q]) EXCEPT
                      !.current_json = ret.self.current_json])
        ELSE all[q]]

\* process_event on the processor of request r: the stream of r owns its
\* processor (process_stream takes self by value).
ProcessFor(all, r, event) ==
    [all EXCEPT ![r] = Some(ProcessEvent(Unwrap(all[r]), event).self)]

\* create_high_level_stream for request r: a new StreamProcessor.
OpenStream(r) ==
    /\ IsNone(procs[r])
    /\ procs' = [procs EXCEPT ![r] = Some(NewProcessor)]
    /\ UNCHANGED <<req_inputs, req_outs>>
    /\ UNCHANGED <<current_message, current_content_block, current_json,
                   result, record, n_events, wire_index>>
    /\ UNCHANGED turn_vars
    /\ UNCHANGED tool_vars
    /\ UNCHANGED stream_vars

\* The stream of request r takes its next wire event.
Deliver(r, event) ==
    /\ IsSome(procs[r])
    /\ Len(req_inputs[1]) + Len(req_inputs[2]) < MaxInterleaved
    /\ procs' = ProcessFor(procs, r, event)
    /\ req_inputs' = [req_inputs EXCEPT ![r] = Append(@, event)]
    /\ req_outs' = [req_outs EXCEPT
                       ![r] = @ \o ProcessEvent(Unwrap(procs[r]), event).out]
    /\ UNCHANGED <<current_message, current_content_block, current_json,
                   result, record, n_events, wire_index>>
    /\ UNCHANGED turn_vars
    /\ UNCHANGED tool_vars
    /\ UNCHANGED stream_vars

NextRequests ==
    \/ \E r \in Requests : OpenStream(r)
    \/ \E r \in Requests : \E event \in RequestEvents : Deliver(r, event)

SpecRequests == Init /\ [][NextRequests]_vars

\* ------------------------------------------------- Agent::execute_turn

\* The wire events of a response to the driver: text blocks, tool-use blocks
\* and server tool-use blocks.
TurnEvents ==
    EventsOver({ b \in StartBlocks :
                   b.type \in {"text", "tool_use", "server_tool_use"} })

\* ToolCallsOf, were only the first block of the content looked at.
ToolCallsOfFirstBlock(content) ==
    IF content # <<>> /\ content[1].type = "tool_use"
    THEN << <<content[1].id, content[1].name, content[1].input>> >>
    ELSE <<>>

\* The (id, name, input) of the ToolUseBlocks of a content list, in order.
ToolCallsOf(content) ==
    LET IsToolUse(b) == b.type = "tool_use"
        uses == SelectSeq(content, IsToolUse)
    IN  [i \in 1 .. Len(uses) |-> <<uses[i].id, uses[i].name, uses[i].input>>]

\* One turn of the while-let loop: the stream yields the next semantic event
\* and the driver matches on it.  The source sends one message per response,
\* meeting the preconditions of the table.
OnStreamingEvent(event) ==
    /\ pc = "streaming"
    /\ IsNone(response)
    /\ Precondition(Self, event)
    /\ Step(event)
    /\ UNCHANGED <<n_events, tool_calls, executed>>
    /\ UNCHANGED aux_vars
    /\ UNCHANGED agent_vars
    /\ UNCHANGED tool_vars
    /\ IF IsEvent(result', "FinalizedMessage")
       THEN /\ response' = Some(Unwrap(result').message)
            /\ UNCHANGED <<pc, displayed_errors>>
       ELSE IF IsEvent(result', "Error")
       THEN /\ pc' = "failed"
            /\ UNCHANGED <<response, displayed_errors>>
       ELSE IF IsEvent(result', "ParseError") \/ IsEvent(result', "ProtocolError")
       THEN /\ displayed_errors < MaxDisplayed
            /\ displayed_errors' = displayed_errors + 1
            /\ UNCHANGED <<pc, response>>
       ELSE UNCHANGED <<pc, response, displayed_errors>>

\* The stream ended: response.expect("missing message"), then the tool
\* calls are collected from the content of the response.
StreamEnd ==
    /\ pc = "streaming"
    /\ IF IsNone(response)
       THEN /\ pc' = "panicked"
            /\ UNCHANGED tool_calls
       ELSE /\ tool_calls' = ToolCallsOf(Unwrap(response).content)
            /\ pc' = IF tool_calls' # <<>> THEN "executing" ELSE "done"
    /\ UNCHANGED <<current_message, current_content_block, current_json,
                   result, record, n_events, response, executed,
                   displayed_errors>>
    /\ UNCHANGED aux_vars
    /\ UNCHANGED agent_vars
    /\ UNCHANGED tool_vars

\* One turn of the for loop over tool_calls: execute_tool is called with the
\* id, name and input of the next call.
ExecuteTool ==
    /\ pc = "executing"
    /\ tool_calls # <<>>
    /\ executed' = Append(executed, Head(tool_calls))
    /\ tool_calls' = Tail(tool_calls)
    /\ UNCHANGED <<current_message, current_content_block, current_json,
                   result, record, n_events, pc, response, displayed_errors>>
    /\ UNCHANGED aux_vars
    /\ UNCHANGED agent_vars
    /\ UNCHANGED tool_vars

\* `continue`: the next inference, processed by a new StreamProcessor.
NextInference ==
    /\ pc = "executing"
    /\ tool_calls = <<>>
    /\ current_message' = NewProcessor.current_message
    /\ current_content_block' = NewProcessor.current_content_block
    /\ current_json' = NewProcessor.current_json
    /\ result' = None
    /\ record' = InitRecord
    /\ pc' = "streaming"
    /\ response' = None
    /\ executed' = <<>>
    /\ displayed_errors' = 0
    /\ UNCHANGED <<n_events, tool_calls>>
    /\ UNCHANGED aux_vars
    /\ UNCHANGED agent_vars
    /\ UNCHANGED tool_vars

NextTurn ==
    \/ \E event \in TurnEvents : OnStreamingEvent(event)
    \/ StreamEnd
    \/ ExecuteTool
    \/ NextInference

SpecTurn == Init /\ [][NextTurn]_vars

\* ------------------------------------------------------------ Agent::run

\* MessageParam
MessageParam(role, content) == [role |-> role, content |-> content]

\* MessageParam::new_user_message
NewUserMessage(content) == MessageParam("user", content)

\* ContentBlockParam::new_text_block
NewTextBlock(text) ==
    [type |-> "text", text |-> text, cache_control |-> None,
     citations |-> None]

\* ContentBlockParam::ToolResultBlock
ToolResultBlock(tool_use_id, content, is_error) ==
    [type |-> "tool_result", tool_use_id |-> tool_use_id,
     content |-> content, is_error |-> is_error, cache_control |-> None]

\* ContentBlock::into_content_block_param, for text and tool-use blocks.
IntoContentBlockParam(block) ==
    IF block.type = "text"
    THEN [type |-> "text", text |-> block.text,
          citations |-> IF block.citations = <<>> THEN None
                        ELSE Some(block.citations),
          cache_control |-> None]
    ELSE [type |-> block.type, id |-> block.id, input |-> block.input,
          name |-> block.name, cache_control |-> None]

\* Message::into_message_param, were the blocks put in reverse order.
IntoMessageParamReversed(message) ==
    MessageParam(message.role,
                 [i \in 1 .. Len(message.content) |->
                     IntoContentBlockParam(
                         message.content[Len(message.content) + 1 - i])])

\* Message::into_message_param: the role of the message, each block converted.
IntoMessageParam(message) ==
    MessageParam(message.role,
                 [i \in 1 .. Len(message.content) |->
                     IntoContentBlockParam(message.content[i])])

\* A Message as the driver receives it: with its role.
ResponseMessage(role, content) ==
    [role |-> role, id |-> "msg_1", content |-> content,
     stop_reason |-> None, stop_sequence |-> None, usage |-> Usage(1, 0)]

\* str::to_lowercase, on the letters the inputs have.
ToLowercase(text) ==
    [i \in 1 .. Len(text) |->
        IF text[i] = "T" THEN "t"
        ELSE IF text[i] = "H" THEN "h"
        ELSE text[i]]

\* str::contains
Contains(text, pattern) ==
    \E i \in 0 .. Len(text) - Len(pattern) :
        SubSeq(text, i + 1, i + Len(pattern)) = pattern

\* The texts of the text blocks of a content list, joined with " ".
RECURSIVE JoinTexts(_)
JoinTexts(content) ==
    IF content = <<>> THEN <<>>
    ELSE LET rest == JoinTexts(Tail(content)) IN
         IF Head(content).type # "text" THEN rest
         ELSE IF \E i \in 2 .. Len(content) : content[i].type = "text"
         THEN Head(content).text \o <<" ">> \o rest
         ELSE Head(content).text

\* Agent::determine_thinking, were the flag of the session not looked at.
DetermineThinkingIgnoresUsed(messages, used) ==
    LET IsUser(m) == m.role = "user"
        users == SelectSeq(messages, IsUser)
        text_lower == IF users = <<>> THEN <<>>
                      ELSE ToLowercase(JoinTexts(users[Len(users)].content))
    IN  IF users # <<>>
           /\ Contains(text_lower,
                       <<"t", "h", "i", "n", "k", " ", "h", "a", "r", "d",
                         "e", "r">>)
        THEN Some(32000)
        ELSE IF users # <<>>
                /\ Contains(text_lower,
                            <<"t", "h", "i", "n", "k", " ", "h", "a", "r",
                              "d">>)
        THEN Some(10000)
        ELSE IF users # <<>>
                /\ Contains(text_lower, <<"t", "h", "i", "n", "k">>)
        THEN Some(4000)
        ELSE None

\* Agent::determine_thinking: the budget of Thinking::Enabled, if any.
DetermineThinking(messages, used) ==
    LET IsUser(m) == m.role = "user"
        users == SelectSeq(messages, IsUser)
        text_lower == IF users = <<>> THEN <<>>
                      ELSE ToLowercase(JoinTexts(users[Len(users)].content))
    IN  IF users # <<>>
           /\ Contains(text_lower,
                       <<"t", "h", "i", "n", "k", " ", "h", "a", "r", "d",
                         "e", "r">>)
        THEN Some(32000)
        ELSE IF users # <<>>
                /\ Contains(text_lower,
                            <<"t", "h", "i", "n", "k", " ", "h", "a", "r",
                              "d">>)
        THEN Some(10000)
        ELSE IF users # <<>>
                /\ Contains(text_lower, <<"t", "h", "i", "n", "k">>)
        THEN Some(4000)
        ELSE IF used THEN Some(1024)
        ELSE None

\* The names in Agent.tool_definitions.
ToolDefinitions == {"bash", "read_file"}

\* What Agent::execute_tool can return: "tool not found!" for a name without
\* definition, else what the function of the tool returns.
ExecuteToolResults(tool_name) ==
    IF tool_name \notin ToolDefinitions
    THEN { [ok |-> FALSE, text |-> "tool not found!"] }
    ELSE { [ok |-> TRUE, text |-> "output"],
           [ok |-> FALSE, text |-> "tool failed"] }

\* What the user types at the prompts of a session.
UserInputs ==
    { <<"h", "i">>,
      <<"T", "h", "i", "n", "k">>,
      <<"t", "h", "i", "n", "k", " ", "h", "a", "r", "d">>,
      <<"t", "h", "i", "n", "k", " ", "h", "a", "r", "d", "e", "r">> }

\* The messages the model answers with: text alone, one tool call, and text
\* with two tool calls, the second of a tool that is not defined.
ResponseMessages ==
    { ResponseMessage("assistant", content) :
        content \in
          { << TextBlock(<<"o", "k">>) >>,
            << ToolUseBlock("toolu_1", EmptyObject, "bash") >>,
            << TextBlock(<<"o", "k">>),
               ToolUseBlock("toolu_1", EmptyObject, "read_file"),
               ToolUseBlock("toolu_2", EmptyObject, "nope") >> } }

\* The semantic events the stream of a response yields to the driver.
ResponseEvents ==
    { EvFinalizedMessage(m) : m \in ResponseMessages }
    \cup { EvError(ApiError),
           EvParseError("failed to parse tool use input json", <<>>),
           EvProtocolError("got message stop but don't have a current message"),
           EvTextStart(<<"o", "k">>, <<>>) }

\* What is left of the actions of the session for the other state.
AgentFrame ==
    /\ UNCHANGED <<current_message, current_content_block, current_json,
                   result, record, n_events, pc>>
    /\ UNCHANGED aux_vars
    /\ UNCHANGED tool_vars

\* The head of the loop of Agent::run: the user is asked when the
\* conversation is empty or ends with an assistant message, the session ends
\* when there is no input, and execute_turn is entered.
RunLoop(user_input) ==
    /\ agent_pc = "run"
    /\ Len(conversation) < MaxConversation
    /\ LET need_user_input ==
               \/ conversation = <<>>
               \/ conversation[Len(conversation)].role = "assistant"
       IN  IF need_user_input /\ IsNone(user_input)
           THEN agent_pc' = "returned" /\ UNCHANGED conversation
           ELSE /\ agent_pc' = "turn"
                /\ conversation' =
                      IF need_user_input
                      THEN Append(conversation,
                                  NewUserMessage(
                                      <<NewTextBlock(Unwrap(user_input))>>))
                      ELSE conversation
    /\ UNCHANGED <<thinking_used, thinking_config, tool_result_contents,
                   response, tool_calls, executed, displayed_errors>>
    /\ AgentFrame

\* The head of the loop of execute_turn: the thinking configuration is
\* determined and the request is sent; it fails, and execute_turn returns
\* the error, or it gives the stream of the response.
RunInferenceStreaming(sent) ==
    /\ agent_pc = "turn"
    /\ Len(conversation) < MaxConversation
    /\ thinking_config' = DetermineThinking(conversation, thinking_used)
    /\ agent_pc' = IF sent THEN "stream" ELSE "failed"
    /\ response' = None
    /\ executed' = <<>>
    /\ displayed_errors' = 0
    /\ tool_result_contents' = <<>>
    /\ UNCHANGED <<conversation, thinking_used, tool_calls>>
    /\ AgentFrame

\* OnResponseEvent, were an Error event displayed like a ParseError.
OnResponseEventDisplaysError(event) ==
    /\ agent_pc = "stream"
    /\ IF event.type = "FinalizedMessage"
       THEN /\ response' = Some(event.message)
            /\ UNCHANGED <<agent_pc, displayed_errors>>
       ELSE IF event.type \in {"Error", "ParseError", "ProtocolError"}
       THEN /\ displayed_errors < MaxDisplayed
            /\ displayed_errors' = displayed_errors + 1
            /\ UNCHANGED <<agent_pc, response>>
       ELSE UNCHANGED <<agent_pc, response, displayed_errors>>
    /\ UNCHANGED <<conversation, thinking_used, thinking_config,
                   tool_result_contents, tool_calls, executed>>
    /\ AgentFrame

\* One turn of the while-let loop over the stream of the response.
OnResponseEvent(event) ==
    /\ agent_pc = "stream"
    /\ IF event.type = "FinalizedMessage"
       THEN /\ response' = Some(event.message)
            /\ UNCHANGED <<agent_pc, displayed_errors>>
       ELSE IF event.type = "Error"
       THEN /\ agent_pc' = "failed"
            /\ UNCHANGED <<response, displayed_errors>>
       ELSE IF event.type \in {"ParseError", "ProtocolError"}
       THEN /\ displayed_errors < MaxDisplayed
            /\ displayed_errors' = displayed_errors + 1
            /\ UNCHANGED <<agent_pc, response>>
       ELSE UNCHANGED <<agent_pc, response, displayed_errors>>
    /\ UNCHANGED <<conversation, thinking_used, thinking_config,
                   tool_result_contents, tool_calls, executed>>
    /\ AgentFrame

\* OnResponseEnd, were a missing response returned as an error.
OnResponseEndReturnsErr ==
    /\ agent_pc = "stream"
    /\ thinking_used' = (thinking_used \/ IsSome(thinking_config))
    /\ IF IsNone(response)
       THEN /\ agent_pc' = "failed"
            /\ UNCHANGED <<conversation, tool_calls>>
       ELSE /\ tool_calls' = ToolCallsOf(Unwrap(response).content)
            /\ conversation' =
                  Append(conversation, IntoMessageParam(Unwrap(response)))
            /\ agent_pc' = IF tool_calls' # <<>> THEN "tools" ELSE "run"
    /\ UNCHANGED <<thinking_config, tool_result_contents, response, executed,
                   displayed_errors>>
    /\ AgentFrame

\* The stream has ended: thinking is marked as used if it was enabled,
\* response.expect("missing message"), the tool calls are collected and the
\* message of the assistant goes into the conversation; without tool call
\* execute_turn returns Ok.
OnResponseEnd ==
    /\ agent_pc = "stream"
    /\ thinking_used' = (thinking_used \/ IsSome(thinking_config))
    /\ IF IsNone(response)
       THEN /\ agent_pc' = "panicked"
            /\ UNCHANGED <<conversation, tool_calls>>
       ELSE /\ tool_calls' = ToolCallsOf(Unwrap(response).content)
            /\ conversation' =
                  Append(conversation, IntoMessageParam(Unwrap(response)))
            /\ agent_pc' = IF tool_calls' # <<>> THEN "tools" ELSE "run"
    /\ UNCHANGED <<thinking_config, tool_result_contents, response, executed,
                   displayed_errors>>
    /\ AgentFrame

\* One turn of the for loop over tool_calls: the tool is executed and its
\* result, or its error, becomes a ToolResultBlock.
CallTool(tool_result_of) ==
    /\ agent_pc = "tools"
    /\ tool_calls # <<>>
    /\ LET tool_id == Head(tool_calls)[1]
           tool_name == Head(tool_calls)[2]
       IN  /\ tool_result_of \in ExecuteToolResults(tool_name)
           /\ tool_result_contents' =
                 Append(tool_result_contents,
                        ToolResultBlock(tool_id, tool_result_of.text,
                                        ~tool_result_of.ok))
    /\ executed' = Append(executed, Head(tool_calls))
    /\ tool_calls' = Tail(tool_calls)
    /\ UNCHANGED <<agent_pc, conversation, thinking_used, thinking_config,
                   response, displayed_errors>>
    /\ AgentFrame

\* PushToolResults, were every result pushed as a user message of its own.
PushToolResultsOneEach ==
    /\ agent_pc = "tools"
    /\ tool_calls = <<>>
    /\ conversation' =
          conversation \o [i \in 1 .. Len(tool_result_contents) |->
                              NewUserMessage(<<tool_result_contents[i]>>)]
    /\ agent_pc' = "turn"
    /\ UNCHANGED <<thinking_used, thinking_config, tool_result_contents,
                   response, tool_calls, executed, displayed_errors>>
    /\ AgentFrame

\* After the for loop: the results go into the conversation as one user
\* message, and the loop of execute_turn continues.
PushToolResults ==
    /\ agent_pc = "tools"
    /\ tool_calls = <<>>
    /\ conversation' =
          IF tool_result_contents # <<>>
          THEN Append(conversation, NewUserMessage(tool_result_contents))
          ELSE conversation
    /\ agent_pc' = "turn"
    /\ UNCHANGED <<thinking_used, thinking_config, tool_result_contents,
                   response, tool_calls, executed, displayed_errors>>
    /\ AgentFrame

NextAgent ==
    \/ \E user_input \in {None} \cup { Some(t) : t \in UserInputs } :
          RunLoop(user_input)
    \/ \E sent \in BOOLEAN : RunInferenceStreaming(sent)
    \/ \E event \in ResponseEvents : OnResponseEvent(event)
    \/ OnResponseEnd
    \/ \E r \in [ok : BOOLEAN, text : {"output", "tool failed",
                                       "tool not found!"}] : CallTool(r)
    \/ PushToolResults

SpecAgent == Init /\ [][NextAgent]_vars

\* ------------------------------------- a source of thinking blocks

\* The wire events of a source of thinking blocks that start with some
\* thinking text and signature and get their fragments in any order.
ThinkingEvents ==
    { SseMessageStart(m) : m \in StartMessages }
    \cup { SseMessageStop, SsePing }
    \cup { SseContentBlockStart(0, ThinkingBlock(<<"s", ":">>,
                                                 <<"O", "k", ".">>)) }
    \cup { SseContentBlockDelta(i, ThinkingDelta(t)) :
             i \in Indices, t \in { <<"H", "m", "m", ".">>, <<".", ".", ".">> } }
    \cup { SseContentBlockDelta(i, SignatureDelta(t)) :
             i \in Indices, t \in { <<"s", "i", "g", "1">> } }
    \cup { SseContentBlockStop(0) }

NextThinking == \E event \in ThinkingEvents : ReceiveWellFormed(event)

SpecThinking == Init /\ [][NextThinking]_vars

\* ------------------------------------- a source of tool-use blocks

\* The wire events of a source that starts tool-use and redacted thinking
\* blocks, in any order and with any index.
ToolInputEvents ==
    EventsOver({ ToolUseBlock("toolu_1", EmptyObject, "bash"),
                 RedactedThinkingBlock(<<"z">>) })

\* The JSON fragments accepted for the open block after `event`, which
\* process_event answered with `out` in state `self`: a ContentBlockStart
\* makes its block the open block, a ContentBlockStop closes it.
ReceivedAfter(received, self, event, out) ==
    IF event.type \in {"content_block_start", "content_block_stop"}
    THEN <<>>
    ELSE IF /\ event.type = "content_block_delta"
            /\ event.delta.type = "input_json_delta"
            /\ IsSome(self.current_content_block)
            /\ out = None
    THEN Append(received, event.delta.partial_json)
    ELSE received

ReceiveToolInput(event) ==
    /\ n_events < MaxToolEvents
    /\ n_events' = n_events + 1
    /\ Step(event)
    /\ received_json' = ReceivedAfter(received_json, Self, event,
                                      ProcessEvent(Self, event).out)
    /\ UNCHANGED <<files, file_access_times, clock, tool_result, todo_list>>
    /\ UNCHANGED turn_vars
    /\ UNCHANGED aux_vars

NextToolInput == \E event \in ToolInputEvents : ReceiveToolInput(event)

SpecToolInput == Init /\ [][NextToolInput]_vars

\* ------------------------------------- a source that numbers blocks freely

\* The wire events of a source whose ContentBlockStart and ContentBlockStop
\* carry the first or the last index, whatever the position of the block.
IndexedEvents ==
    { SseMessageStart(m) : m \in StartMessages }
    \cup { SseContentBlockStart(i, b) :
             i \in {0, MaxBlocks},
             b \in {TextBlock(<<">", " ">>), ThinkingBlock(<<>>, <<>>)} }
    \cup { SseContentBlockStop(i) : i \in {0, MaxBlocks} }

\* The loop of process_stream takes the event from the source, which is
\* kept in raw_taken, and processes it.
ReceiveIndexed(event) ==
    /\ n_events < MaxEvents
    /\ n_events' = n_events + 1
    /\ raw_taken' = Append(raw_taken, Frame(event))
    /\ Step(event)
    /\ UNCHANGED <<wire_index, stream_pc, wire, yielded>>
    /\ UNCHANGED turn_vars
    /\ UNCHANGED tool_vars
    /\ UNCHANGED request_vars

NextIndexed == \E event \in IndexedEvents : ReceiveIndexed(event)

SpecIndexed == Init /\ [][NextIndexed]_vars

\* ------------------------------------------------- aj-tools: file tools

\* Result<String, anyhow::Error>
Ok(text) == [ok |-> TRUE, text |-> text]

Err(error) == [ok |-> FALSE, error |-> error]

\* Path::is_absolute
IsAbsolute(path) == path # <<>> /\ Head(path) = "/"

\* Path::exists: `fs` maps each absolute path to its file, None when there
\* is no file at the path.
Exists(fs, path) == path \in DOMAIN fs /\ IsSome(fs[path])

\* fs::write: the file gets the content, and the time as modification time.
FsWrite(fs, path, content, now) ==
    [fs EXCEPT ![path] = Some([content |-> content, modified |-> now])]

\* str::lines, for contents that hold no line terminator.
Lines(content) == IF content = <<>> THEN <<>> ELSE <<content>>

RECURSIVE MatchIndicesFrom(_, _, _)
\* The start indices, from 1-based position `i` on, of the non-overlapping
\* matches of a non-empty pattern.
MatchIndicesFrom(content, pat, i) ==
    IF i + Len(pat) - 1 > Len(content) THEN <<>>
    ELSE IF SubSeq(content, i, i + Len(pat) - 1) = pat
    THEN <<i - 1>> \o MatchIndicesFrom(content, pat, i + Len(pat))
    ELSE MatchIndicesFrom(content, pat, i + 1)

\* str::match_indices: the empty pattern matches at every boundary.
MatchIndices(content, pat) ==
    IF pat = <<>> THEN [i \in 1 .. Len(content) + 1 |-> i - 1]
    ELSE MatchIndicesFrom(content, pat, 1)

RECURSIVE ReplaceFrom(_, _, _, _)
ReplaceFrom(content, from, to, i) ==
    IF i > Len(content) THEN IF from = <<>> THEN to ELSE <<>>
    ELSE IF from = <<>>
    THEN to \o <<content[i]>> \o ReplaceFrom(content, from, to, i + 1)
    ELSE IF /\ i + Len(from) - 1 <= Len(content)
            /\ SubSeq(content, i, i + Len(from) - 1) = from
    THEN to \o ReplaceFrom(content, from, to, i + Len(from))
    ELSE <<content[i]>> \o ReplaceFrom(content, from, to, i + 1)

\* str::replace: every non-overlapping match, left to right.
Replace(content, from, to) == ReplaceFrom(content, from, to, 1)

\* SessionState::record_file_access: the session keeps, per path, the time
\* of the last recorded access.
RecordFileAccess(access, path, now) == [access EXCEPT ![path] = Some(now)]

\* SessionState::get_file_access_time
GetFileAccessTime(access, path) == access[path]

\* What a tool call leaves: the file system, the recorded accesses, and
\* what execute returns.
ToolRet(fs, access, returned) ==
    [files |-> fs, file_access_times |-> access, result |-> returned]

\* ReadFileTool::execute
ReadFileExecute(fs, access, now, input) ==
    IF ~IsAbsolute(input.path)
    THEN ToolRet(fs, access, Err("Path must be absolute"))
    ELSE IF ~Exists(fs, input.path)
    THEN ToolRet(fs, access, Err("Failed to read file"))
    ELSE LET content == Unwrap(fs[input.path]).content
             lines == Lines(content)
             start_idx == IF IsSome(input.offset) /\ Unwrap(input.offset) > 0
                          THEN Unwrap(input.offset) - 1
                          ELSE 0
         IN  IF start_idx >= Len(lines)
             THEN ToolRet(fs, access, Ok(""))
             ELSE ToolRet(fs, RecordFileAccess(access, input.path, now),
                          [ok |-> TRUE, text |-> "{:5>}: {}",
                           lines |-> [i \in 1 .. Len(lines) - start_idx |->
                                        [number |-> start_idx + i,
                                         line |-> lines[start_idx + i]]]])

\* OnAccessTime, were a modification after the recorded access let through.
OnAccessTimeIgnoresModification(access_time, modified_time) ==
    IF IsNone(access_time) THEN "has not been accessed in this session"
    ELSE "accessed"

\* `match access_time` of the three tools that change a file: whether the
\* file was accessed, and not modified since.
OnAccessTime(access_time, modified_time) ==
    IF IsNone(access_time) THEN "has not been accessed in this session"
    ELSE IF Unwrap(access_time) < modified_time
    THEN "has been modified since last access"
    ELSE "accessed"

\* WriteFileTool::execute
WriteFileExecute(fs, access, now, input) ==
    IF ~IsAbsolute(input.path)
    THEN ToolRet(fs, access, Err("Path must be absolute"))
    ELSE LET file_exists == Exists(fs, input.path)
             checked ==
                 IF file_exists
                 THEN OnAccessTime(GetFileAccessTime(access, input.path),
                                   Unwrap(fs[input.path]).modified)
                 ELSE "accessed"
         IN  IF checked # "accessed"
             THEN ToolRet(fs, access, Err(checked))
             ELSE ToolRet(FsWrite(fs, input.path, input.content, now), access,
                          Ok(IF file_exists THEN "Successfully overwrote file"
                             ELSE "Successfully created file"))

\* EditFileTool::execute
EditFileExecute(fs, access, now, input) ==
    IF ~IsAbsolute(input.path)
    THEN ToolRet(fs, access, Err("Path must be absolute"))
    ELSE IF ~Exists(fs, input.path)
    THEN ToolRet(fs, access, Err("does not exist"))
    ELSE LET checked == OnAccessTime(GetFileAccessTime(access, input.path),
                                     Unwrap(fs[input.path]).modified)
             content == Unwrap(fs[input.path]).content
             matches == MatchIndices(content, input.old_string)
         IN  IF checked # "accessed" THEN ToolRet(fs, access, Err(checked))
             ELSE IF matches = <<>>
             THEN ToolRet(fs, access, Err("No occurrences found"))
             ELSE IF Len(matches) = 1 \/ input.replace_all
             THEN ToolRet(FsWrite(fs, input.path,
                                  Replace(content, input.old_string,
                                          input.new_string), now),
                          access, Ok("Successfully replaced"))
             ELSE ToolRet(fs, access,
                          Err("Exactly one occurrence is required"))

\* ApplyEdits, were an edit without a match skipped.
RECURSIVE ApplyEditsSkipsUnmatched(_, _, _)
ApplyEditsSkipsUnmatched(content, edits, i) ==
    IF i > Len(edits) THEN [ok |-> TRUE, content |-> content]
    ELSE LET edit == edits[i]
             matches == MatchIndices(content, edit.old_string)
         IN  IF matches = <<>>
             THEN ApplyEditsSkipsUnmatched(content, edits, i + 1)
             ELSE IF Len(matches) = 1 \/ edit.replace_all
             THEN ApplyEditsSkipsUnmatched(
                      Replace(content, edit.old_string, edit.new_string),
                      edits, i + 1)
             ELSE [ok |-> FALSE, edit |-> i,
                   error |-> "Exactly one occurrence is required"]

\* EditFileMultiTool::execute, the loop over input.edits from edit `i` on:
\* the content after the last edit, or the first edit that fails.
RECURSIVE ApplyEdits(_, _, _)
ApplyEdits(content, edits, i) ==
    IF i > Len(edits) THEN [ok |-> TRUE, content |-> content]
    ELSE LET edit == edits[i]
             matches == MatchIndices(content, edit.old_string)
         IN  IF matches = <<>>
             THEN [ok |-> FALSE, edit |-> i, error |-> "No occurrences found"]
             ELSE IF Len(matches) = 1 \/ edit.replace_all
             THEN ApplyEdits(Replace(content, edit.old_string,
                                     edit.new_string),
                             edits, i + 1)
             ELSE [ok |-> FALSE, edit |-> i,
                   error |-> "Exactly one occurrence is required"]

\* EditFileMultiTool::execute
EditFileMultiExecute(fs, access, now, input) ==
    IF ~IsAbsolute(input.path)
    THEN ToolRet(fs, access, Err("Path must be absolute"))
    ELSE IF ~Exists(fs, input.path)
    THEN ToolRet(fs, access, Err("does not exist"))
    ELSE LET checked == OnAccessTime(GetFileAccessTime(access, input.path),
                                     Unwrap(fs[input.path]).modified)
             original_content == Unwrap(fs[input.path]).content
             applied == ApplyEdits(original_content, input.edits, 1)
         IN  IF checked # "accessed" THEN ToolRet(fs, access, Err(checked))
             ELSE IF ~applied.ok
             THEN ToolRet(fs, access,
                          [ok |-> FALSE, error |-> applied.error,
                           edit |-> applied.edit])
             ELSE ToolRet(FsWrite(fs, input.path, applied.content, now),
                          access,
                          [ok |-> TRUE, text |-> "Successfully applied edits",
                           edits |-> Len(input.edits)])

\* The files the session works on, and a relative path.
AbsolutePaths == { <<"/", "f">>, <<"/", "g">> }

InputPaths == AbsolutePaths \cup { <<"f">> }

ReadFileInputs ==
    { [path |-> p, offset |-> o] : p \in InputPaths, o \in {None, Some(2)} }

WriteFileInputs ==
    { [path |-> p, content |-> c] :
        p \in InputPaths, c \in { <<>>, <<"a", "b">> } }

EditOperation(old_string, new_string, replace_all) ==
    [old_string |-> old_string, new_string |-> new_string,
     replace_all |-> replace_all]

EditOperations ==
    { EditOperation(<<"b">>, <<"a">>, FALSE),
      EditOperation(<<"a">>, <<"b">>, FALSE),
      EditOperation(<<"a">>, <<"b">>, TRUE),
      EditOperation(<<"a", "a">>, <<"b">>, FALSE),
      EditOperation(<<"a", "b">>, <<"a">>, FALSE),
      EditOperation(<<>>, <<"a">>, FALSE) }

\* The edits of a call of edit_file_multi: none, one, and two of which the
\* second has a match only in what the first produces, or only in what the
\* first replaces.
EditLists ==
    { <<>>,
      << EditOperation(<<"b">>, <<"a">>, FALSE) >>,
      << EditOperation(<<"a">>, <<"b">>, FALSE) >>,
      << EditOperation(<<"b">>, <<"a">>, FALSE),
         EditOperation(<<"a", "a">>, <<"b">>, FALSE) >>,
      << EditOperation(<<"a">>, <<"b">>, TRUE),
         EditOperation(<<"a", "b">>, <<"a">>, FALSE) >>,
      << EditOperation(<<"b">>, <<"a">>, FALSE),
         EditOperation(<<"a">>, <<"b">>, FALSE) >>,
      << EditOperation(<<"b">>, <<"a">>, FALSE),
         EditOperation(<<"a">>, <<"b">>, TRUE) >>,
      << EditOperation(<<>>, <<"a">>, FALSE),
         EditOperation(<<"a">>, <<>>, FALSE) >> }

EditFileInputs ==
    { [path |-> p, old_string |-> e.old_string, new_string |-> e.new_string,
       replace_all |-> e.replace_all] :
        p \in InputPaths, e \in EditOperations }

EditFileMultiInputs ==
    { [path |-> p, edits |-> edits] :
        p \in InputPaths, edits \in EditLists }

\* What another process writes to a file while the session runs.
ExternalContents == { <<"a", "a">> }

FilesBounded(fs) ==
    \A p \in AbsolutePaths :
        IsSome(fs[p]) => Len(Unwrap(fs[p]).content) <= MaxContent

\* A tool is called: execute leaves `ret`.
CallFileTool(tool, input, ret) ==
    /\ FilesBounded(ret.files)
    /\ files' = ret.files
    /\ file_access_times' = ret.file_access_times
    /\ tool_result' = Some([tool |-> tool, input |-> input,
                            result |-> ret.result])
    /\ UNCHANGED <<clock, todo_list>>
    /\ UNCHANGED processor_vars
    /\ UNCHANGED turn_vars
    /\ UNCHANGED aux_vars

ReadFile(input) ==
    CallFileTool("read_file", input,
                 ReadFileExecute(files, file_access_times, clock, input))

WriteFile(input) ==
    CallFileTool("write_file", input,
                 WriteFileExecute(files, file_access_times, clock, input))

EditFile(input) ==
    CallFileTool("edit_file", input,
                 EditFileExecute(files, file_access_times, clock, input))

EditFileMulti(input) ==
    CallFileTool("edit_file_multi", input,
                 EditFileMultiExecute(files, file_access_times, clock, input))

\* Another process writes a file between two tool calls.
ExternalWrite(path, content) ==
    /\ files' = FsWrite(files, path, content, clock)
    /\ tool_result' = None
    /\ UNCHANGED <<file_access_times, clock, todo_list>>
    /\ UNCHANGED processor_vars
    /\ UNCHANGED turn_vars
    /\ UNCHANGED aux_vars

\* Time passes between two tool calls.
Tick ==
    /\ clock < MaxClock
    /\ clock' = clock + 1
    /\ tool_result' = None
    /\ UNCHANGED <<files, file_access_times, todo_list>>
    /\ UNCHANGED processor_vars
    /\ UNCHANGED turn_vars
    /\ UNCHANGED aux_vars

NextFiles ==
    \/ Tick
    \/ \E path \in AbsolutePaths, content \in ExternalContents :
          ExternalWrite(path, content)
    \/ \E input \in ReadFileInputs : ReadFile(input)
    \/ \E input \in WriteFileInputs : WriteFile(input)
    \/ \E input \in EditFileInputs : EditFile(input)
    \/ \E input \in EditFileMultiInputs : EditFileMulti(input)

SpecFiles == Init /\ [][NextFiles]_vars

\* ------------------------------------------------- aj-tools: todo tools

TodoItem(id, content, priority, status) ==
    [id |-> id, content |-> content, priority |-> priority, status |-> status]

\* TodoStatus, by its serde name.
TodoStatus == {"todo", "in-progress", "completed"}

TodoItems ==
    { TodoItem("1", "task", "medium", s) : s \in TodoStatus }

TodoLists == UNION { [1 .. n -> TodoItems] : n \in 0 .. MaxTodos }

\* format_todo_list: one line per item.
FormatTodoList(todos) ==
    IF todos = <<>>
    THEN << [status_symbol |-> "", content |-> "TODO list is empty.",
             crossed_out |-> FALSE, priority_text |-> ""] >>
    ELSE [i \in 1 .. Len(todos) |->
            [status_symbol |->
                 IF todos[i].status = "todo" THEN "-"
                 ELSE IF todos[i].status = "in-progress" THEN ">"
                 ELSE "v",
             content |-> todos[i].content,
             crossed_out |-> todos[i].status = "completed",
             priority_text |->
                 IF todos[i].priority = "high" THEN " (high)"
                 ELSE IF todos[i].priority = "medium" THEN " (medium)"
                 ELSE " (low)"]]

\* TodoReadTool::execute
TodoReadExecute(list) ==
    [todo_list |-> list,
     result |-> [ok |-> TRUE, formatted |-> FormatTodoList(list)]]

\* TodoWriteTool::execute, were the stored list replaced before the input
\* is validated.
TodoWriteExecuteStoresFirst(list, input) ==
    LET in_progress_count ==
            Cardinality({ i \in 1 .. Len(input.todos) :
                            input.todos[i].status = "in-progress" })
    IN  IF in_progress_count > 1
        THEN [todo_list |-> input.todos,
              result |-> [ok |-> FALSE,
                          error |-> "Only one TODO item can be in progress",
                          found |-> in_progress_count]]
        ELSE [todo_list |-> input.todos,
              result |-> [ok |-> TRUE, text |-> "Updated todo list",
                          items |-> Len(input.todos),
                          formatted |-> FormatTodoList(input.todos)]]

\* TodoWriteTool::execute
TodoWriteExecute(list, input) ==
    LET in_progress_count ==
            Cardinality({ i \in 1 .. Len(input.todos) :
                            input.todos[i].status = "in-progress" })
    IN  IF in_progress_count > 1
        THEN [todo_list |-> list,
              result |-> [ok |-> FALSE,
                          error |-> "Only one TODO item can be in progress",
                          found |-> in_progress_count]]
        ELSE [todo_list |-> input.todos,
              result |-> [ok |-> TRUE, text |-> "Updated todo list",
                          items |-> Len(input.todos),
                          formatted |-> FormatTodoList(input.todos)]]

CallTodoTool(tool, input, ret) ==
    /\ todo_list' = ret.todo_list
    /\ tool_result' = Some([tool |-> tool, input |-> input,
                            result |-> ret.result])
    /\ UNCHANGED <<files, file_access_times, clock>>
    /\ UNCHANGED processor_vars
    /\ UNCHANGED turn_vars
    /\ UNCHANGED aux_vars

TodoRead ==
    LET ret == TodoReadExecute(todo_list) IN
    /\ todo_list' = ret.todo_list
    /\ tool_result' = Some([tool |-> "todo_read", result |-> ret.result])
    /\ UNCHANGED <<files, file_access_times, clock>>
    /\ UNCHANGED processor_vars
    /\ UNCHANGED turn_vars
    /\ UNCHANGED aux_vars

TodoWrite(input) ==
    CallTodoTool("todo_write", input, TodoWriteExecute(todo_list, input))

NextTodo ==
    \/ TodoRead
    \/ \E todos \in TodoLists : TodoWrite([todos |-> todos])

SpecTodo == Init /\ [][NextTodo]_vars

\* ------------------------------------------- what the table prescribes

\* The block the table has appended for a closed block: the block as
\* started, with the delivered fragments appended to its payload, or with
\* the parsed fragments as its argument.
ExpectedBlock(d) ==
    IF d.start.type = "text"
    THEN [d.start EXCEPT !.text = d.start.text \o Concat(d.text)]
    ELSE IF d.start.type = "thinking"
    THEN [d.start EXCEPT
             !.thinking = d.start.thinking \o Concat(d.text),
             !.signature = d.start.signature \o Concat(d.signature)]
    ELSE IF d.start.type \in ToolUseFamily
    THEN [d.start EXCEPT !.input = FromStr(Concat(d.json)).value]
    ELSE d.start

ExpectedContent(done) == [i \in 1 .. Len(done) |-> ExpectedBlock(done[i])]

\* The semantic events of a text block after its deltas so far.
ExpectedTextUpdates(d) ==
    <<EvTextStart(d.start.text, d.start.citations)>>
    \o [i \in 1 .. Len(d.text) |->
          EvTextUpdate(d.text[i],
                       d.start.text \o Concat(SubSeq(d.text, 1, i)))]

\* --------------------------------------------------------------- claims

C2_TextBlockEvents ==
    record.wf =>
        /\ (IsSome(record.open) /\ Unwrap(record.open).start.type = "text") =>
              Unwrap(record.open).outs = ExpectedTextUpdates(Unwrap(record.open))
        /\ \A i \in 1 .. Len(record.done) :
              LET d == record.done[i] IN
              d.start.type = "text" =>
                 /\ d.outs = ExpectedTextUpdates(d)
                       \o <<EvTextStop(d.start.text \o Concat(d.text))>>
                 /\ IsEvent(result, "FinalizedMessage") =>
                       /\ Unwrap(result).message.content[i].type = "text"
                       /\ Unwrap(result).message.content[i].text
                             = d.outs[Len(d.outs)].text

\* C2 witness: the FinalizedMessage of a message whose text block got two
\* text deltas.
C2_Witness ==
    /\ record.wf
    /\ IsEvent(result, "FinalizedMessage")
    /\ \E i \in 1 .. Len(record.done) :
          /\ record.done[i].start.type = "text"
          /\ Len(record.done[i].text) = 2
          /\ Len(record.done[i].outs) = 4
          /\ record.done[i].outs[3].snapshot # record.done[i].outs[3].diff

\* C3: in a well-formed sequence a tool-use block whose fragments
\* concatenate to a JSON text is appended at ContentBlockStop with the parsed
\* value as its argument, and its ContentBlockStart, JSON deltas and
\* ContentBlockStop emit nothing.
C3_ToolUseParsed ==
    record.wf =>
        /\ (IsSome(record.open)
              /\ Unwrap(record.open).start.type \in ToolUseFamily) =>
              Unwrap(record.open).outs = <<>>
        /\ (IsSome(record.closed)
              /\ Unwrap(record.closed).start.type \in ToolUseFamily
              /\ FromStr(Concat(Unwrap(record.closed).json)).ok) =>
              LET c == Unwrap(record.closed)
                  content == Unwrap(current_message).content
              IN  /\ c.outs = <<>>
                  /\ result = None
                  /\ Len(content) > 0
                  /\ content[Len(content)] =
                        [c.start EXCEPT
                            !.input = FromStr(Concat(c.json)).value]

\* C3 witness: the fragments {"aa": and 111} were delivered and the block
\* was appended with the argument {"aa": 111}.
C3_Witness ==
    /\ record.wf
    /\ IsSome(record.closed)
    /\ Unwrap(record.closed).json =
          << <<"{", "\"", "a", "a", "\"", ":">>, <<"1", "1", "1", "}">> >>
    /\ IsSome(current_message)
    /\ Unwrap(current_message).content # <<>>
    /\ LET content == Unwrap(current_message).content IN
       content[Len(content)] =
          ToolUseBlock("toolu_1",
              [type |-> "object",
               members |-> << << <<"a", "a">>,
                                 [type |-> "number", n |-> 111] >> >>],
              "bash")

\* C4: in a well-formed sequence a tool-use block whose fragments do not
\* concatenate to a JSON text yields exactly one semantic event, a
\* ParseError at its ContentBlockStop, whose raw_data is the concatenation
\* of the fragments in arrival order.
C4_ParseErrorRawData ==
    (/\ record.wf
     /\ IsSome(record.closed)
     /\ Unwrap(record.closed).start.type \in ToolUseFamily
     /\ ~FromStr(Concat(Unwrap(record.closed).json)).ok) =>
        LET c == Unwrap(record.closed) IN
        /\ IsEvent(result, "ParseError")
        /\ Unwrap(result).raw_data = Concat(c.json)
        /\ c.outs = <<Unwrap(result)>>

\* C4 witness: the fragments arrived in the wrong order, 111} then {"aa": ,
\* and the ParseError carries 111}{"aa": .
C4_Witness ==
    /\ record.wf
    /\ IsSome(record.closed)
    /\ Len(Unwrap(record.closed).json) = 2
    /\ IsEvent(result, "ParseError")
    /\ Unwrap(result).raw_data =
          <<"1", "1", "1", "}", "{", "\"", "a", "a", "\"", ":">>

\* C5: a tool-use block whose buffered JSON failed to parse is not appended
\* to the content of the message, so it is not in the FinalizedMessage, and
\* the driver, which executes the ToolUseBlocks of the FinalizedMessage
\* content and nothing else, calls execute_tool only with inputs that are
\* the parsed value of the fragments of a block that was appended.
C5_ParseFailedNeverExecuted ==
    record.wf =>
        /\ (/\ IsSome(record.closed)
            /\ Unwrap(record.closed).start.type \in ToolUseFamily
            /\ ~FromStr(Concat(Unwrap(record.closed).json)).ok) =>
               /\ IsSome(current_message)
               /\ Unwrap(current_message).content
                     = ExpectedContent(record.done)
        /\ IsSome(response) =>
               Unwrap(response).content = ExpectedContent(record.done)
        /\ pc \in {"executing", "done"} =>
               /\ IsSome(response)
               /\ executed \o tool_calls
                     = ToolCallsOf(Unwrap(response).content)
        /\ \A i \in 1 .. Len(executed) :
               \E j \in 1 .. Len(record.done) :
                  LET d == record.done[j] IN
                  /\ d.start.type = "tool_use"
                  /\ FromStr(Concat(d.json)).ok
                  /\ executed[i] = <<d.start.id, d.start.name,
                                     FromStr(Concat(d.json)).value>>

\* C5 witness: the response had a tool-use block with the fragments {"aa":
\* and 111} and a tool-use block whose JSON failed to parse; the driver
\* displayed the error and executed one call, with the input {"aa": 111}.
C5_Witness ==
    /\ pc = "executing"
    /\ tool_calls = <<>>
    /\ displayed_errors = 1
    /\ Len(Unwrap(response).content) = 1
    /\ executed =
          << << "toolu_1", "bash",
                [type |-> "object",
                 members |-> << << <<"a", "a">>,
                                   [type |-> "number", n |-> 111] >> >>] >> >>

\* The processor after the step.
SelfAfter == Processor(current_message', current_content_block', current_json')

\* The step left the three fields of the processor as they were.
Untouched == SelfAfter = Self

\* C6: a ContentBlockDelta received while no message is under construction
\* or whose index is not the number of content blocks of the current message
\* yields ProtocolError and changes neither current_content_block nor the
\* JSON buffer nor the message: the processor is as if the delta had not been
\* sent, and a valid delta sent afterwards accumulates accordingly.
C6_IndexMismatchRejected ==
    [][\A event \in WireEvents :
          (/\ event.type = "content_block_delta"
           /\ \/ IsNone(current_message)
              \/ event.index # Len(Unwrap(current_message).content)
           /\ Receive(event)) =>
              (IsProtocolError(result') /\ Untouched)]_vars

\* C6 witness: a delta was rejected for its index while a text block that
\* had already accumulated a fragment was open; the block still holds it.
C6_Witness ==
    /\ result = Some(EvProtocolError(
          "got content block delta for index but current message has other content blocks"))
    /\ IsSome(current_content_block)
    /\ Unwrap(current_content_block) =
          TextBlock(<<">", " ", "H", "i", ",", " ">>)

\* C7: a ContentBlockStart received while a content block is open yields
\* ProtocolError and leaves the open block and the JSON buffer as they were.
C7_DuplicateBlockStartKeepsBlock ==
    [][\A event \in WireEvents :
          (/\ event.type = "content_block_start"
           /\ IsSome(current_content_block)
           /\ Receive(event)) =>
              /\ IsProtocolError(result')
              /\ current_content_block' = current_content_block
              /\ current_json' = current_json]_vars

\* C8: a MessageStart received while a message is under construction yields
\* ProtocolError and leaves the processor, and so the message with its
\* content and usage, as it was.
C8_DuplicateMessageStartKeepsMessage ==
    [][\A event \in WireEvents :
          (/\ event.type = "message_start"
           /\ IsSome(current_message)
           /\ Receive(event)) =>
              (IsProtocolError(result') /\ Untouched)]_vars

\* Whether the event refers to a message or a block that is not there.
RefersToAbsentState(self, event) ==
    \/ /\ event.type \in {"message_delta", "message_stop"}
       /\ IsNone(self.current_message)
    \/ /\ event.type \in {"content_block_delta", "content_block_stop"}
       /\ IsNone(self.current_content_block) \/ IsNone(self.current_message)

\* C9: a MessageDelta or MessageStop with no message under construction, and
\* a ContentBlockDelta or ContentBlockStop with no open block or no message
\* under construction, yields ProtocolError and leaves current_message,
\* current_content_block and current_json as they were.
C9_AbsentStateRejectedWithoutEffect ==
    [][\A event \in WireEvents :
          (RefersToAbsentState(Self, event) /\ Receive(event)) =>
              (IsProtocolError(result') /\ Untouched)]_vars

\* C10: a ContentBlockDelta whose kind does not match the kind of the open
\* block yields ProtocolError.
C10_KindMismatchRejected ==
    [][\A event \in WireEvents :
          (/\ event.type = "content_block_delta"
           /\ IsSome(current_content_block)
           /\ ~KindMatches(Unwrap(current_content_block), event.delta)
           /\ Receive(event)) =>
              IsProtocolError(result')]_vars

\* C11: current_json is Some exactly when a content block is open and that
\* block is of the tool-use family.
C11_JsonBufferOnlyForOpenToolUse ==
    IsSome(current_json) <=>
        /\ IsSome(current_content_block)
        /\ Unwrap(current_content_block).type \in ToolUseFamily

\* Whether the sequence `old` is a prefix of the sequence `new`.
IsPrefix(old, new) ==
    /\ Len(old) <= Len(new)
    /\ SubSeq(new, 1, Len(old)) = old

\* C12: while a message is under construction, an event leaves its content
\* list as it was or, if the event is a ContentBlockStop, appends one block
\* to it: the content list before the event is a prefix of the one after.
C12_ContentOnlyGrowsByStop ==
    [][(IsSome(current_message) /\ IsSome(current_message')) =>
          LET old == Unwrap(current_message).content
              new == Unwrap(current_message').content
          IN  /\ IsPrefix(old, new)
              /\ new # old =>
                    /\ Len(new) = Len(old) + 1
                    /\ \E event \in WireEvents :
                          /\ event.type = "content_block_stop"
                          /\ SelfAfter = ProcessEvent(Self, event).self]_vars

\* The fields of Usage that a delta replaces.
ReplacedUsageFields ==
    {"cache_creation", "cache_creation_input_tokens",
     "cache_read_input_tokens", "server_tool_use", "service_tier"}

StreamingEventVariants ==
    {"MessageStart", "UsageUpdate", "FinalizedMessage", "Error", "TextStart",
     "TextUpdate", "TextStop", "ThinkingStart", "ThinkingUpdate",
     "ThinkingStop", "ParseError", "ProtocolError"}

\* C16: process_event returns for every wire event, in every state, with no
\* semantic event or one; it never panics.
C16_NeverPanics ==
    \/ result = None
    \/ IsSome(result) /\ Unwrap(result).type \in StreamingEventVariants

\* C15: in a message whose events carry the index the source gave their
\* block, a block that follows a tool-use block ended in ParseError has its
\* deltas accepted like those of any other block: no event of the message
\* yields ProtocolError.
C15_BlocksAfterParseErrorAccepted ==
    ~IsProtocolError(result)

\* C20: a Ping, in any state, yields no semantic event and leaves
\* current_message, current_content_block and current_json as they were, so
\* the events and the FinalizedMessage that follow are those of the sequence
\* without the Ping.
C20_PingIgnored ==
    [][Receive(SsePing) => (result' = None /\ Untouched)]_vars

\* C20 witness: a Ping arrived while a text block that had accumulated a
\* fragment was open in a message; nothing was emitted and the block is
\* still open with its text.
C20_Witness ==
    /\ result = None
    /\ IsSome(current_message)
    /\ current_json = None
    /\ current_content_block =
          Some(TextBlock(<<">", " ", "H", "i", ",", " ">>))

\* The wire events decoded from the items taken from the event source.
DecodedOf(items) ==
    LET IsFrame(item) == item.kind = "frame"
        frames == SelectSeq(items, IsFrame)
    IN  [i \in 1 .. Len(frames) |-> frames[i].event]

\* The semantic events of a processor that is given the wire events one
\* after the other, in order.
RECURSIVE RunAlone(_, _)
RunAlone(self, events) ==
    IF events = <<>> THEN <<>>
    ELSE LET ret == ProcessEvent(self, Head(events))
         IN  ret.out \o RunAlone(ret.self, Tail(events))

\* C14: once a FinalizedMessage or an Error has been forwarded downstream,
\* the stream forwards no further semantic event: such an event is the last
\* of those forwarded.
C14_TerminalEventIsLast ==
    \A i \in 1 .. Len(yielded) - 1 :
        yielded[i].type \notin {"FinalizedMessage", "Error"}

\* C17: the stream takes the wire events one at a time in the order of the
\* source, forwards the semantic event of a wire event, if it has one,
\* before it takes the next, and ends when the source ends: the events
\* forwarded are the outcomes of the wire events processed, in their order,
\* at most one per wire event.
C17_SequentialReducer ==
    LET decoded == DecodedOf(raw_taken)
        processed == IF stream_pc = "process"
                     THEN SubSeq(decoded, 1, Len(decoded) - 1)
                     ELSE decoded
        outs == RunAlone(NewProcessor, processed)
    IN  /\ stream_pc = "process" <=> IsSome(wire)
        /\ stream_pc = "process" => Unwrap(wire) = decoded[Len(decoded)]
        /\ stream_pc = "yield" =>
              /\ IsSome(result)
              /\ outs = Append(yielded, Unwrap(result))
        /\ stream_pc # "yield" => outs = yielded
        /\ Len(yielded) <= Len(processed)

\* C17 witness: the source delivered MessageStart, ContentBlockStart, Ping
\* and a text delta and ended; MessageStart, TextStart and TextUpdate were
\* forwarded, in this order.
C17_Witness ==
    /\ stream_pc = "ended"
    /\ Len(raw_taken) = 4
    /\ raw_taken[3] = Frame(SsePing)
    /\ Len(yielded) = 3
    /\ yielded[1].type = "MessageStart"
    /\ yielded[2].type = "TextStart"
    /\ yielded[3] = EvTextUpdate(<<"H", "i", ",", " ">>,
                                 <<">", " ", "H", "i", ",", " ">>)

\* The number of positions of a sequence whose element satisfies Test.
Count(seq, Test(_)) == Cardinality({ i \in 1 .. Len(seq) : Test(seq[i]) })

\* C19: a frame that does not decode and an error of the event stream reach
\* the consumer as an error: the stream does not panic, and when it has
\* ended it has forwarded one error for each failure of the source and each
\* error event.
C19_DecoderFailuresReported ==
    LET IsFailure(item) == item.kind \in {"undecodable", "error"}
        IsErrorFrame(item) ==
            item.kind = "frame" /\ item.event.type = "error"
        IsError(event) == event.type = "Error"
    IN  /\ stream_pc # "panicked"
        /\ stream_pc = "ended" =>
              Count(yielded, IsError)
                 = Count(raw_taken, IsFailure) + Count(raw_taken, IsErrorFrame)

\* The processor after it was given the wire events one after the other.
RECURSIVE StateAlone(_, _)
StateAlone(self, events) ==
    IF events = <<>> THEN self
    ELSE StateAlone(ProcessEvent(self, Head(events)).self, Tail(events))

\* C18: the stream of each request has a StreamProcessor of its own, new
\* with its three fields None; however the wire events of two concurrent
\* requests interleave, each request emits the events, and its processor is
\* in the state, of the request run alone on its own wire events.
C18_RequestsIndependent ==
    \A r \in Requests :
        IF IsNone(procs[r])
        THEN req_inputs[r] = <<>> /\ req_outs[r] = <<>>
        ELSE /\ req_inputs[r] = <<>> => procs[r] = Some(NewProcessor)
             /\ req_outs[r] = RunAlone(NewProcessor, req_inputs[r])
             /\ Unwrap(procs[r]) = StateAlone(NewProcessor, req_inputs[r])

\* C18 witness: request 1 has an open tool-use block with an empty JSON
\* buffer while request 2, whose events arrived around it, has an open text
\* block, no JSON buffer, and has emitted MessageStart and TextStart.
C18_Witness ==
    /\ IsSome(procs[1]) /\ IsSome(procs[2])
    /\ Len(req_inputs[1]) = 2 /\ Len(req_inputs[2]) = 2
    /\ Unwrap(procs[1]).current_json = Some(<<>>)
    /\ IsSome(Unwrap(procs[1]).current_message)
    /\ Unwrap(procs[2]).current_json = None
    /\ Unwrap(procs[2]).current_content_block
          = Some(TextBlock(<<">", " ">>))
    /\ Len(req_outs[2]) = 2 /\ req_outs[2][2].type = "TextStart"

\* C24: a MessageStop processed while a message is under construction moves
\* the message out: it emits FinalizedMessage carrying that message, with its
\* content, stop_reason, stop_sequence and usage as accumulated, and leaves
\* current_message None.
C24_MessageStopFinalizes ==
    [][(IsSome(current_message) /\ Receive(SseMessageStop)) =>
          /\ result' = Some(EvFinalizedMessage(Unwrap(current_message)))
          /\ current_message' = None
          /\ current_content_block' = current_content_block
          /\ current_json' = current_json]_vars

\* C24 witness: a FinalizedMessage carrying one appended block and the
\* stop_reason of the MessageDelta before it, with no message left.
C24_Witness ==
    /\ IsEvent(result, "FinalizedMessage")
    /\ current_message = None
    /\ Len(Unwrap(result).message.content) = 1
    /\ Unwrap(result).message.stop_reason = Some("end_turn")
    /\ Unwrap(result).message.usage = Usage(1, 0)

\* C25: a wire Error event yields the semantic Error event with the same
\* error, in every state, and leaves current_message, current_content_block
\* and current_json as they were.
C25_ErrorPassedThrough ==
    [][Receive(SseError(ApiError)) =>
          /\ result' = Some(EvError(ApiError))
          /\ Untouched]_vars

\* C25 witness: an Error was emitted while a message and a tool-use block
\* with a JSON fragment in the buffer are under construction.
C25_Witness ==
    /\ result = Some(EvError(ApiError))
    /\ IsSome(current_message)
    /\ IsSome(current_content_block)
    /\ Unwrap(current_content_block).type = "tool_use"
    /\ IsSome(current_json) /\ Unwrap(current_json) # <<>>

\* The semantic events of a thinking block after its deltas so far: a
\* signature delta adds none.
ExpectedThinkingUpdates(d) ==
    <<EvThinkingStart(d.start.thinking)>>
    \o [i \in 1 .. Len(d.text) |->
          EvThinkingUpdate(d.text[i],
                           d.start.thinking \o Concat(SubSeq(d.text, 1, i)))]

\* C26: a well-formed thinking block emits ThinkingStart with its initial
\* thinking text, then per thinking delta one ThinkingUpdate whose diff is
\* the fragment and whose snapshot is the thinking text accumulated so far;
\* a signature delta is appended to the signature and emits nothing; at
\* ContentBlockStop it emits ThinkingStop and the block appended to the
\* message has as thinking and signature the initial values followed by the
\* delivered fragments.
C26_ThinkingBlockEvents ==
    record.wf =>
        /\ (IsSome(record.open)
              /\ Unwrap(record.open).start.type = "thinking") =>
              LET o == Unwrap(record.open) IN
              /\ o.outs = ExpectedThinkingUpdates(o)
              /\ current_content_block = Some(ExpectedBlock(o))
        /\ (IsSome(record.closed)
              /\ Unwrap(record.closed).start.type = "thinking") =>
              LET c == Unwrap(record.closed)
                  content == Unwrap(current_message).content
              IN  /\ c.outs = ExpectedThinkingUpdates(c) \o <<EvThinkingStop>>
                  /\ result = Some(EvThinkingStop)
                  /\ content[Len(content)] =
                        ThinkingBlock(
                            c.start.signature \o Concat(c.signature),
                            c.start.thinking \o Concat(c.text))

\* C26 witness: a thinking block was closed that got two thinking deltas
\* and two signature deltas.
C26_Witness ==
    /\ record.wf
    /\ IsSome(record.closed)
    /\ Unwrap(record.closed).start.type = "thinking"
    /\ Len(Unwrap(record.closed).text) = 2
    /\ Len(Unwrap(record.closed).signature) = 2
    /\ Unwrap(record.closed).outs =
          << EvThinkingStart(<<"O", "k", ".">>),
             EvThinkingUpdate(<<"H", "m", "m", ".">>,
                              <<"O", "k", ".", "H", "m", "m", ".">>),
             EvThinkingUpdate(<<".", ".", ".">>,
                              <<"O", "k", ".", "H", "m", "m", ".",
                                ".", ".", ".">>),
             EvThinkingStop >>
    /\ Unwrap(current_message).content =
          << ThinkingBlock(<<"s", ":", "s", "i", "g", "1", "s", "i", "g", "1">>,
                           <<"O", "k", ".", "H", "m", "m", ".",
                             ".", ".", ".">>) >>

\* The block kinds the assembler builds or parses.
AssembledKinds == {"text", "thinking"} \cup ToolUseFamily

\* C27: in a well-formed run a content block of any other kind than text,
\* thinking and the tool-use kinds is passed through: its ContentBlockStart
\* and its ContentBlockStop emit no semantic event, and ContentBlockStop
\* appends to the message content the block exactly as ContentBlockStart
\* carried it.
C27_OtherKindsPassThrough ==
    record.wf =>
        /\ (IsSome(record.open)
              /\ Unwrap(record.open).start.type \notin AssembledKinds) =>
              /\ Unwrap(record.open).outs = <<>>
              /\ current_content_block = Some(Unwrap(record.open).start)
        /\ (IsSome(record.closed)
              /\ Unwrap(record.closed).start.type \notin AssembledKinds) =>
              LET c == Unwrap(record.closed)
                  content == Unwrap(current_message).content
              IN  /\ c.outs = <<>>
                  /\ result = None
                  /\ Len(content) = Len(record.done)
                  /\ content[Len(content)] = c.start

\* C27 witness: a redacted thinking block was closed after a text block and
\* is the second block of the message.
C27_Witness ==
    /\ record.wf
    /\ IsSome(record.closed)
    /\ Unwrap(record.closed).start.type = "redacted_thinking"
    /\ result = None
    /\ Len(Unwrap(current_message).content) = 2
    /\ Unwrap(current_message).content[2] = RedactedThinkingBlock(<<"z">>)

\* What the table prescribes for a MessageDelta with a message under
\* construction: the message with the delta's stop_reason and stop_sequence
\* and the merged usage, and UsageUpdate with the delta's usage.
MessageDeltaEffect(event) ==
    LET old == Unwrap(current_message) IN
    /\ result' = Some(EvUsageUpdate(event.usage))
    /\ current_message' =
          Some([old EXCEPT !.stop_reason = event.delta.stop_reason,
                           !.stop_sequence = event.delta.stop_sequence,
                           !.usage = UsageUpdate(old.usage, event.usage)])
    /\ current_content_block' = current_content_block
    /\ current_json' = current_json

\* C28: every MessageDelta received while a message is under construction
\* overwrites the message's stop_reason and stop_sequence with the delta's
\* values, absent ones included, merges the delta's usage into the
\* message's usage, and emits UsageUpdate carrying the delta's usage as
\* received.
C28_MessageDeltaOverwritesAndEmits ==
    [][\A event \in UsageEvents :
          (event.type = "message_delta" /\ IsSome(current_message)
             /\ Receive(event)) => MessageDeltaEffect(event)]_vars

\* C30: in every reachable state a content block is under construction only
\* while a message is under construction.
C30_BlockOnlyWithinMessage ==
    IsSome(current_content_block) => IsSome(current_message)

\* C29: in any wire-event sequence the argument of every tool-use-family
\* block appended to the message is the parse of the concatenation of the
\* JSON fragments accepted while that block was the open block.
C29_ToolInputFromOwnFragments ==
    [][(/\ IsSome(current_content_block)
        /\ Unwrap(current_content_block).type \in ToolUseFamily
        /\ IsSome(current_message) /\ IsSome(current_message')
        /\ current_content_block' = None
        /\ Len(Unwrap(current_message').content)
              = Len(Unwrap(current_message).content) + 1) =>
          LET content == Unwrap(current_message').content
              parsed == FromStr(Concat(received_json))
          IN  /\ parsed.ok
              /\ content[Len(content)].input = parsed.value]_vars

\* Whether the session has a recorded access of the file at `path` that is
\* not older than the last modification of the file.
AccessedSinceModified(path) ==
    /\ IsSome(file_access_times[path])
    /\ Unwrap(file_access_times[path]) >= Unwrap(files[path]).modified

RECURSIVE AfterEdits(_, _, _)
\* The content after the first `k` of the edits, each replacing every match
\* in what the edits before it produced.
AfterEdits(content, edits, k) ==
    IF k = 0 THEN content
    ELSE Replace(AfterEdits(content, edits, k - 1),
                 edits[k].old_string, edits[k].new_string)

\* Whether an edit can be applied to the content: it has one match, or
\* several and replace_all.
EditSucceeds(content, edit) ==
    LET n == Len(MatchIndices(content, edit.old_string)) IN
    n = 1 \/ (n > 1 /\ edit.replace_all)

\* C22: a call of edit_file_multi that passes the access check matches each
\* edit against the content the edits before it produced; if every edit
\* succeeds the file is written once, with the content after the last edit,
\* and if an edit has no match, or several without replace_all, the call
\* fails at the first such edit and the file is left exactly as it was.
C22_EditsSequentialAndAtomic ==
    [][(/\ IsSome(tool_result')
        /\ Unwrap(tool_result').tool = "edit_file_multi"
        /\ Unwrap(tool_result').input.path \in AbsolutePaths
        /\ IsSome(files[Unwrap(tool_result').input.path])
        /\ AccessedSinceModified(Unwrap(tool_result').input.path)) =>
          LET call == Unwrap(tool_result')
              path == call.input.path
              edits == call.input.edits
              before == Unwrap(files[path]).content
              failing ==
                  { i \in 1 .. Len(edits) :
                      ~EditSucceeds(AfterEdits(before, edits, i - 1),
                                    edits[i]) }
              after == AfterEdits(before, edits, Len(edits))
          IN  IF failing = {}
              THEN /\ call.result.ok
                   /\ files' = [files EXCEPT ![path] =
                         Some([content |-> after, modified |-> clock])]
              ELSE /\ ~call.result.ok
                   /\ \A i \in failing : call.result.edit <= i
                   /\ call.result.edit \in failing
                   /\ files' = files]_vars

\* C22 witness: edit_file_multi failed at its second edit, whose old_string
\* matches the file on disk but not what the first edit produced, and the
\* file is as it was.
C22_Witness ==
    /\ IsSome(tool_result)
    /\ Unwrap(tool_result).tool = "edit_file_multi"
    /\ Unwrap(tool_result).input.path = <<"/", "f">>
    /\ Unwrap(tool_result).input.edits =
          << EditOperation(<<"a">>, <<"b">>, TRUE),
             EditOperation(<<"a", "b">>, <<"a">>, FALSE) >>
    /\ ~Unwrap(tool_result).result.ok
    /\ Unwrap(tool_result).result.error = "No occurrences found"
    /\ Unwrap(tool_result).result.edit = 2
    /\ files[<<"/", "f">>] = Some([content |-> <<"a", "b">>, modified |-> 0])

\* TodoStatus::InProgress items of a list.
InProgressCount(todos) ==
    Cardinality({ i \in 1 .. Len(todos) : todos[i].status = "in-progress" })

\* C23: the todo list of a session that starts with the empty list has at
\* most one in-progress item after any sequence of todo_write calls; a
\* todo_write with more than one in-progress item returns an error and
\* leaves the stored list as it was, and an accepted todo_write replaces the
\* stored list with its input.
C23_AtMostOneInProgress ==
    /\ [](InProgressCount(todo_list) <= 1)
    /\ [][(/\ IsSome(tool_result')
           /\ Unwrap(tool_result').tool = "todo_write") =>
             LET call == Unwrap(tool_result') IN
             IF InProgressCount(call.input.todos) > 1
             THEN ~call.result.ok /\ todo_list' = todo_list
             ELSE call.result.ok /\ todo_list' = call.input.todos]_vars

\* C23 witness: a todo_write with two in-progress items was refused and the
\* stored list is the list of three items, one in progress, written before.
C23_Witness ==
    /\ IsSome(tool_result)
    /\ Unwrap(tool_result).tool = "todo_write"
    /\ ~Unwrap(tool_result).result.ok
    /\ Unwrap(tool_result).result.found = 2
    /\ Len(todo_list) = 3
    /\ InProgressCount(todo_list) = 1

\* C31: the index of a ContentBlockStart and of a ContentBlockStop is not
\* looked at.  With no block open a ContentBlockStart of any index opens its
\* block and yields no ProtocolError; with a block open a ContentBlockStop of
\* any index closes it, yields a ProtocolError only where the message or the
\* JSON buffer is missing, and where the block is appended it is appended
\* behind the blocks the message has, whatever the index; the outcome is the
\* one of the same event with any other index.
C31_IndexNotChecked ==
    [][raw_taken' # raw_taken =>
        LET event == raw_taken'[Len(raw_taken')].event
            before == IF IsSome(current_message)
                      THEN Unwrap(current_message).content ELSE <<>>
            after == IF IsSome(current_message')
                     THEN Unwrap(current_message').content ELSE <<>>
        IN  /\ (event.type = "content_block_start"
                  /\ IsNone(current_content_block)) =>
                  /\ current_content_block' = Some(event.content_block)
                  /\ ~IsEvent(result', "ProtocolError")
            /\ (event.type = "content_block_stop"
                  /\ IsSome(current_content_block)) =>
                  /\ current_content_block' = None
                  /\ IsEvent(result', "ProtocolError") =>
                        IsNone(current_message) \/ IsNone(current_json)
                  /\ after # before =>
                        /\ Len(after) = Len(before) + 1
                        /\ SubSeq(after, 1, Len(before)) = before
                        /\ after[Len(before) + 1].type
                             = Unwrap(current_content_block).type
                  /\ (IsSome(current_message)
                        /\ Unwrap(current_content_block).type
                             \notin ToolUseFamily) => after # before
            /\ event.type \in {"content_block_start", "content_block_stop"} =>
                  \A i \in Indices :
                      LET ret == ProcessEvent(Self, [event EXCEPT !.index = i])
                      IN  /\ current_message' = ret.self.current_message
                          /\ current_content_block'
                               = ret.self.current_content_block
                          /\ current_json' = ret.self.current_json
                          /\ result' = ret.out
    ]_vars

\* C31 witness: the first block of a message was started with the last index
\* and stopped with index 0, the second started with index 0 and stopped
\* with the last index, and the message holds them in that order.
C31_Witness ==
    /\ Len(raw_taken) = 5
    /\ raw_taken[2].event =
          SseContentBlockStart(MaxBlocks, TextBlock(<<">", " ">>))
    /\ raw_taken[3].event = SseContentBlockStop(0)
    /\ raw_taken[4].event = SseContentBlockStart(0, ThinkingBlock(<<>>, <<>>))
    /\ raw_taken[5].event = SseContentBlockStop(MaxBlocks)
    /\ IsSome(current_message)
    /\ Unwrap(current_message).content =
          <<TextBlock(<<">", " ">>), ThinkingBlock(<<>>, <<>>)>>

\* Whether the content of a message has a ToolUseBlock.
HasToolUse(message) ==
    \E i \in 1 .. Len(message.content) : message.content[i].type = "tool_use"

ToolUseIds(content) ==
    LET IsToolUse(b) == b.type = "tool_use"
        uses == SelectSeq(content, IsToolUse)
    IN  [i \in 1 .. Len(uses) |-> uses[i].id]

\* The names of the tool-use blocks of a content list, in order.
ToolUseNames(content) ==
    LET IsToolUse(b) == b.type = "tool_use"
        uses == SelectSeq(content, IsToolUse)
    IN  [i \in 1 .. Len(uses) |-> uses[i].name]

\* Whether `results` are ToolResultBlocks for the first tool calls of
\* `content`, in order, with is_error for every call that did not give
\* output and for every call of a tool without definition.
ResultsMatch(results, content) ==
    /\ Len(results) <= Len(ToolUseIds(content))
    /\ \A j \in 1 .. Len(results) :
          /\ results[j].type = "tool_result"
          /\ results[j].tool_use_id = ToolUseIds(content)[j]
          /\ results[j].is_error <=> (results[j].content # "output")
          /\ ToolUseNames(content)[j] \notin ToolDefinitions =>
                results[j].is_error

\* C33: every assistant message of the conversation with k >= 1 ToolUseBlocks
\* is followed by a user message of exactly k ToolResultBlocks whose
\* tool_use_id are the ids of the ToolUseBlocks in order, as soon as a
\* message follows it; until then the driver is executing its tool calls.  A
\* tool that fails or has no definition gives a ToolResultBlock with
\* is_error, and the turn goes on: from the tool calls the driver only
\* continues to the next model request.
C33_ToolResultsFollowToolUse ==
    /\ [](\A i \in 1 .. Len(conversation) :
            LET m == conversation[i]
                k == Len(ToolUseIds(m.content))
            IN  (m.role = "assistant" /\ k >= 1) =>
                    IF i < Len(conversation)
                    THEN /\ conversation[i + 1].role = "user"
                         /\ Len(conversation[i + 1].content) = k
                         /\ ResultsMatch(conversation[i + 1].content,
                                         m.content)
                    ELSE /\ agent_pc = "tools"
                         /\ ResultsMatch(tool_result_contents, m.content)
                         /\ Len(tool_result_contents) + Len(tool_calls) = k)
    /\ [][agent_pc = "tools" => agent_pc' \in {"tools", "turn"}]_vars

\* C33 witness: the two tool calls of an assistant message, one of a tool
\* that failed and one of a tool without definition, were answered by one
\* user message with two results in the order of the calls, and the turn
\* continues.
C33_Witness ==
    /\ agent_pc = "turn"
    /\ Len(conversation) = 3
    /\ ToolUseIds(conversation[2].content) = <<"toolu_1", "toolu_2">>
    /\ conversation[3] =
          NewUserMessage(
              << ToolResultBlock("toolu_1", "tool failed", TRUE),
                 ToolResultBlock("toolu_2", "tool not found!", TRUE) >>)

C35_ErrorEndsTurn ==
    /\ [](agent_pc = "failed" =>
            /\ executed = <<>>
            /\ tool_result_contents = <<>>
            /\ conversation # <<>>
            /\ conversation[Len(conversation)].role = "user")
    /\ [][/\ agent_pc = "failed" => agent_pc' = "failed"
          /\ \A event \in ResponseEvents :
                OnResponseEvent(event) =>
                   /\ event.type = "Error" =>
                         /\ agent_pc' = "failed"
                         /\ UNCHANGED <<conversation, executed, thinking_used>>
                   /\ event.type \in {"ParseError", "ProtocolError"} =>
                         /\ agent_pc' = "stream"
                         /\ displayed_errors' = displayed_errors + 1
                         /\ UNCHANGED <<conversation, executed, response>>
         ]_vars

\* C35 witness: execute_turn has returned Err for a response of which an
\* error was displayed and a FinalizedMessage received before the Error
\* event; the conversation holds the input of the user alone.
C35_Witness ==
    /\ agent_pc = "failed"
    /\ displayed_errors = 1
    /\ IsSome(response)
    /\ HasToolUse(Unwrap(response))
    /\ Len(conversation) = 1
    /\ executed = <<>>

\* C36: when the stream of a response ends and no FinalizedMessage was
\* received, execute_turn panics: it returns nothing to its caller, appends
\* nothing and runs no tool.  When a FinalizedMessage was received it does
\* not panic, and while the stream is consumed an error is returned only
\* for an Error event.
C36_MissingMessagePanics ==
    /\ [](agent_pc = "panicked" =>
            /\ IsNone(response)
            /\ executed = <<>>
            /\ conversation[Len(conversation)].role = "user")
    /\ [][/\ (OnResponseEnd /\ IsNone(response)) =>
                agent_pc' = "panicked" /\ UNCHANGED conversation
          /\ (OnResponseEnd /\ IsSome(response)) =>
                agent_pc' \in {"tools", "run"}
          /\ (agent_pc = "stream" /\ agent_pc' = "failed") =>
                \E event \in ResponseEvents :
                    event.type = "Error" /\ OnResponseEvent(event)
          /\ agent_pc = "panicked" => agent_pc' = "panicked"
         ]_vars

\* C36 witness: the stream of a response gave a ProtocolError or ParseError,
\* which was displayed, and ended without FinalizedMessage: execute_turn
\* panicked.
C36_Witness ==
    /\ agent_pc = "panicked"
    /\ displayed_errors = 1
    /\ IsNone(response)
    /\ Len(conversation) = 1

\* The budget the last user message of a conversation asks for, by the input
\* of the user it holds; a message of tool results asks for none.
TriggeredBudget(messages) ==
    LET IsUser(m) == m.role = "user"
        users == SelectSeq(messages, IsUser)
        last == users[Len(users)].content[1]
    IN  IF users = <<>> \/ last.type # "text" THEN None
        ELSE IF last.text = <<"t", "h", "i", "n", "k", " ", "h", "a", "r",
                              "d", "e", "r">>
        THEN Some(32000)
        ELSE IF last.text = <<"t", "h", "i", "n", "k", " ", "h", "a", "r", "d">>
        THEN Some(10000)
        ELSE IF last.text = <<"T", "h", "i", "n", "k">> THEN Some(4000)
        ELSE None

\* C37, as amended: thinking_used is false until a model call was made, is
\* never reset, and becomes true exactly when the stream of a model call made
\* with thinking enabled has ended without Error event; a call whose request
\* fails or whose stream gives an Error event leaves it as it is.  Every
\* model call has the budget its last user message asks for, 32000, 10000
\* or 4000, and without trigger phrase 1024 if thinking_used is true and no
\* thinking otherwise.
C37_ThinkingUsedAfterCompletedCall ==
    /\ []((agent_pc \in {"run", "turn"} /\ Len(conversation) <= 1) =>
             ~thinking_used)
    /\ [][/\ thinking_used => thinking_used'
          /\ (agent_pc = "stream"
                /\ agent_pc' \in {"tools", "run", "panicked"}) =>
                thinking_used' = (thinking_used \/ IsSome(thinking_config))
          /\ thinking_used' # thinking_used =>
                /\ agent_pc = "stream"
                /\ agent_pc' \in {"tools", "run", "panicked"}
          /\ (agent_pc = "turn" /\ agent_pc' # "turn") =>
                /\ thinking_config' =
                      IF IsSome(TriggeredBudget(conversation))
                      THEN TriggeredBudget(conversation)
                      ELSE IF thinking_used THEN Some(1024)
                      ELSE None
                /\ thinking_used => IsSome(thinking_config')
         ]_vars

\* C37 as stated: thinking_used is true after any model call made with
\* thinking enabled, however the call ends.
C37_ThinkingUsedAfterAnyCall ==
    [][(agent_pc = "stream" /\ agent_pc' # "stream"
          /\ IsSome(thinking_config)) => thinking_used'
      ]_vars

\* C37 witness: after a turn the user began with a trigger phrase, the model
\* call of a turn without trigger phrase has thinking enabled with the
\* minimum budget.
C37_Witness ==
    /\ agent_pc = "stream"
    /\ thinking_used
    /\ Len(conversation) = 3
    /\ conversation[1].content[1].text = <<"T", "h", "i", "n", "k">>
    /\ conversation[3].content[1].type = "text"
    /\ conversation[3].content[1].text = <<"h", "i">>
    /\ thinking_config = Some(1024)

\* Whether the tool call changed the file at the path it names.
IsModification(call) ==
    /\ call.tool \in {"write_file", "edit_file", "edit_file_multi"}
    /\ call.result.ok

\* C38: two modifications of the same file need a read_file in between: no
\* successful write_file, edit_file or edit_file_multi of a path directly
\* follows a successful one of the same path.
C38_ReadBetweenModifications ==
    [][~(/\ IsSome(tool_result)
         /\ IsSome(tool_result')
         /\ IsModification(Unwrap(tool_result))
         /\ IsModification(Unwrap(tool_result'))
         /\ Unwrap(tool_result).input.path = Unwrap(tool_result').input.path)
      ]_vars

====
